---- MODULE Spec2Model ----
(***************************************************************************)
(* A model of webpki's signed-data verifier (src/signed_data.rs) and of    *)
(* its subject-name verification and name-constraint enforcement           *)
(* (src/subject_name/verify.rs).                                           *)
(*                                                                         *)
(* Byte strings are sequences of naturals below 256.  Option<T> is a       *)
(* sequence of length 0 (None) or 1 (Some(x)).  A Result is a string:      *)
(* "Ok" or the name of the Error variant.                                  *)
(***************************************************************************)
EXTENDS Naturals, Sequences, FiniteSets

VARIABLES
    \* verify_signed_data (src/signed_data.rs)
    supported_algorithms,       \* the list of algorithms of the call
    spki_value,                 \* the SubjectPublicKeyInfo bytes of the call
    signed_data,                \* [data, algorithm, signature] of the call
    sd_next,                    \* position of the `for` loop in supported_algorithms
    found_signature_alg_match,  \* the local of that name
    sd_result,                  \* "pending", or what the call returned
    sd_calls,                   \* the callback invocations made so far
    \* verify_cert_dns_name, verify_cert_subject_name (src/subject_name/verify.rs)
    cert,                       \* the end-entity certificate: [subject, subject_alt_name]
    subject_name,               \* the reference name: [kind, value]
    nv_op,                      \* the function called
    nv_pc,                      \* "entry", then the find_map running: "dns" or "ip"
    nv_iter,                    \* the NameIterator of the call
    nv_yielded,                 \* the items the iterator has yielded so far
    nv_result,                  \* "pending", or what the call returned
    names,                      \* the Vec `names` of list_cert_dns_names
    \* NameIterator (src/subject_name/verify.rs)
    it_subject,                 \* the argument `subject` of NameIterator::new
    it_subject_alt_name,        \* its argument `subject_alt_name`
    it_contents,                \* its argument `subject_common_name_contents`
    it_iter,                    \* the NameIterator (`self` of next)
    returned,                   \* what the calls of next() returned, in order
    \* GeneralName::from_der (src/subject_name/verify.rs)
    gn_input,                   \* the bytes its argument `input` has left
    gn_result,                  \* the Result it returned (err "pending" before)
    \* check_presented_id_conforms_to_constraints (src/subject_name/verify.rs)
    cf_name,                    \* the presented GeneralName
    cf_permitted_subtrees,      \* Option<bytes>: the contents of permittedSubtrees
    cf_excluded_subtrees,       \* Option<bytes>: the contents of excludedSubtrees
    cf_result,                  \* "pending"; "None" for None, or the Error of Some(Err(..))
    \* check_name_constraints (src/subject_name/verify.rs)
    nc_input,                   \* Option<bytes>: the value of the NameConstraints extension
    chain,                      \* subordinate_certs and what its ee_or_ca links lead to
    subject_common_name_contents, \* "DnsName" or "Ignore"
    permitted_subtrees,         \* the locals of these names
    excluded_subtrees,
    child,                      \* the position of `child` in chain (0 before the loop)
    nc_result                   \* "pending", or what the call returned

sdVars == <<supported_algorithms, spki_value, signed_data, sd_next,
            found_signature_alg_match, sd_result, sd_calls>>

nvVars == <<cert, subject_name, nv_op, nv_pc, nv_iter, nv_yielded, nv_result,
            names>>

cfVars == <<cf_name, cf_permitted_subtrees, cf_excluded_subtrees, cf_result>>

ncVars == <<nc_input, chain, subject_common_name_contents, permitted_subtrees,
            excluded_subtrees, child, nc_result>>

itVars == <<it_subject, it_subject_alt_name, it_contents, it_iter, returned>>

gnVars == <<gn_input, gn_result>>

vars == <<sdVars, nvVars, cfVars, ncVars, itVars, gnVars>>

----------------------------------------------------------------------------
\* Option<T>

None == << >>

Some(x) == <<x>>

\* `let value = ..; body`
Let(value, body(_)) == body(value)

IsSome(o) == Len(o) = 1

Unwrap(o) == o[1]

----------------------------------------------------------------------------
\* The DER reader (crate::der, described in section 4.1 of the specification).
\* A reader is the sequence of bytes not yet read.

SEQUENCE_TAG == 48

SET_TAG == 49

BIT_STRING_TAG == 3

OID_TAG == 6

UTF8_STRING_TAG == 12

CONTEXT_SPECIFIC == 128

CONSTRUCTED == 32

BadTlv == [ok |-> FALSE, tag |-> 0, value |-> << >>, rest |-> << >>]

\* der::read_tag_and_get_value: one tag-length-value.  High tag numbers are
\* rejected.  Every input of the model is shorter than 128 bytes, where a
\* length octet with the high bit set is always an error: 0x80 is the
\* indefinite form, and a long form either is not minimal or runs past the end.
read_tag_and_get_value(reader) ==
    IF Len(reader) < 2 THEN BadTlv
    ELSE IF reader[1] % 32 = 31 THEN BadTlv
    ELSE IF reader[2] >= 128 THEN BadTlv
    ELSE IF Len(reader) < 2 + reader[2] THEN BadTlv
    ELSE [ok |-> TRUE, tag |-> reader[1],
          value |-> SubSeq(reader, 3, 2 + reader[2]),
          rest |-> SubSeq(reader, 3 + reader[2], Len(reader))]

\* der::expect_tag_and_get_value
expect_tag_and_get_value(reader, tag) ==
    LET r == read_tag_and_get_value(reader)
    IN IF r.ok /\ r.tag = tag THEN r ELSE BadTlv

\* der::bit_string_with_no_unused_bits: the first content octet must be 0
bit_string_with_no_unused_bits(reader) ==
    LET r == expect_tag_and_get_value(reader, BIT_STRING_TAG)
    IN IF r.ok /\ Len(r.value) >= 1 /\ r.value[1] = 0
       THEN [r EXCEPT !.value = Tail(r.value)]
       ELSE BadTlv

\* Reader::peek
peek(reader, tag) == Len(reader) >= 1 /\ reader[1] = tag

\* Reader::at_end
at_end(reader) == Len(reader) = 0

\* The encoding of one tag-length-value (used to build the inputs)
Tlv(tag, value) == <<tag, Len(value)>> \o value

----------------------------------------------------------------------------
\* src/signed_data.rs

\* AlgorithmIdentifier::matches_algorithm_id_value: byte-exact equality
matches_algorithm_id_value(asn1_id_value, encoded) == encoded = asn1_id_value

BadSpki == [ok |-> FALSE, algorithm_id_value |-> << >>, key_value |-> << >>]

\* SubjectPublicKeyInfo::from_der under Input::read_all(Error::BadDer, ..):
\* a SEQUENCE, a BIT STRING with no unused bits, and nothing after them.
SubjectPublicKeyInfo_from_der(spki) ==
    LET a == expect_tag_and_get_value(spki, SEQUENCE_TAG)
        k == bit_string_with_no_unused_bits(a.rest)
    IN IF ~a.ok THEN BadSpki
       ELSE IF ~k.ok THEN BadSpki
       ELSE IF ~at_end(k.rest) THEN BadSpki
       ELSE [ok |-> TRUE, algorithm_id_value |-> a.value, key_value |-> k.value]

\* SignatureVerificationAlgorithm::verify_signature, the injected callback:
\* a pure function of its arguments, given by the table of what it accepts.
callback_accepts(alg, public_key, message, signature) ==
    <<public_key, message, signature>> \in alg.accepts

NoCall == << >>

\* A plausible slip: the key's algorithm identifier is not compared.
verify_signature_no_key_check(alg, spki, msg, signature) ==
    LET p == SubjectPublicKeyInfo_from_der(spki)
    IN IF ~p.ok THEN [result |-> "BadDer", calls |-> NoCall]
       ELSE [result |-> IF callback_accepts(alg, p.key_value, msg, signature)
                        THEN "Ok" ELSE "InvalidSignatureForPublicKey",
             calls |-> <<[alg |-> alg, public_key |-> p.key_value,
                          message |-> msg, signature |-> signature]>>]

\* verify_signature: its result, and the callback invocation it made (if any)
verify_signature(alg, spki, msg, signature) ==
    LET p == SubjectPublicKeyInfo_from_der(spki)
    IN IF ~p.ok THEN [result |-> "BadDer", calls |-> NoCall]
       ELSE IF ~matches_algorithm_id_value(alg.public_key_alg_id, p.algorithm_id_value)
       THEN [result |-> "UnsupportedSignatureAlgorithmForPublicKey", calls |-> NoCall]
       ELSE [result |-> IF callback_accepts(alg, p.key_value, msg, signature)
                        THEN "Ok" ELSE "InvalidSignatureForPublicKey",
             calls |-> <<[alg |-> alg, public_key |-> p.key_value,
                          message |-> msg, signature |-> signature]>>]

\* A plausible slip: the loop body run for every algorithm of the list.
signature_alg_filter_all(alg) == TRUE

\* The filter of the `for` loop
signature_alg_filter(alg) ==
    matches_algorithm_id_value(alg.signature_alg_id, signed_data.algorithm)

\* The loop meets an algorithm the filter drops.
SigFiltered ==
    /\ sd_result = "pending"
    /\ sd_next <= Len(supported_algorithms)
    /\ ~signature_alg_filter(supported_algorithms[sd_next])
    /\ sd_next' = sd_next + 1
    /\ UNCHANGED <<supported_algorithms, spki_value, signed_data,
                   found_signature_alg_match, sd_result, sd_calls>>
    /\ UNCHANGED <<nvVars, cfVars, ncVars, itVars, gnVars>>

\* A plausible slip: an algorithm whose callback rejects is passed over like
\* one for another kind of key.
SigBodyTriesNext ==
    /\ sd_result = "pending"
    /\ sd_next <= Len(supported_algorithms)
    /\ signature_alg_filter(supported_algorithms[sd_next])
    /\ LET r == verify_signature(supported_algorithms[sd_next], spki_value,
                                 signed_data.data, signed_data.signature)
       IN /\ sd_calls' = sd_calls \o r.calls
          /\ IF r.result \in {"UnsupportedSignatureAlgorithmForPublicKey",
                               "InvalidSignatureForPublicKey"}
             THEN /\ found_signature_alg_match' = TRUE
                  /\ sd_next' = sd_next + 1
                  /\ UNCHANGED sd_result
             ELSE /\ sd_result' = r.result
                  /\ UNCHANGED <<found_signature_alg_match, sd_next>>
    /\ UNCHANGED <<supported_algorithms, spki_value, signed_data>>
    /\ UNCHANGED <<nvVars, cfVars, ncVars, itVars, gnVars>>

\* The loop body, for an algorithm the filter keeps.
SigBody ==
    /\ sd_result = "pending"
    /\ sd_next <= Len(supported_algorithms)
    /\ signature_alg_filter(supported_algorithms[sd_next])
    /\ LET r == verify_signature(supported_algorithms[sd_next], spki_value,
                                 signed_data.data, signed_data.signature)
       IN /\ sd_calls' = sd_calls \o r.calls
          /\ IF r.result = "UnsupportedSignatureAlgorithmForPublicKey"
             THEN /\ found_signature_alg_match' = TRUE
                  /\ sd_next' = sd_next + 1
                  /\ UNCHANGED sd_result
             ELSE /\ sd_result' = r.result
                  /\ UNCHANGED <<found_signature_alg_match, sd_next>>
    /\ UNCHANGED <<supported_algorithms, spki_value, signed_data>>
    /\ UNCHANGED <<nvVars, cfVars, ncVars, itVars, gnVars>>

\* A plausible slip: the two errors after the loop swapped.
SigExhaustedSwapped ==
    /\ sd_result = "pending"
    /\ sd_next > Len(supported_algorithms)
    /\ sd_result' = IF found_signature_alg_match
                    THEN "UnsupportedSignatureAlgorithm"
                    ELSE "UnsupportedSignatureAlgorithmForPublicKey"
    /\ UNCHANGED <<supported_algorithms, spki_value, signed_data, sd_next,
                   found_signature_alg_match, sd_calls>>
    /\ UNCHANGED <<nvVars, cfVars, ncVars, itVars, gnVars>>

\* The loop is exhausted.
SigExhausted ==
    /\ sd_result = "pending"
    /\ sd_next > Len(supported_algorithms)
    /\ sd_result' = IF found_signature_alg_match
                    THEN "UnsupportedSignatureAlgorithmForPublicKey"
                    ELSE "UnsupportedSignatureAlgorithm"
    /\ UNCHANGED <<supported_algorithms, spki_value, signed_data, sd_next,
                   found_signature_alg_match, sd_calls>>
    /\ UNCHANGED <<nvVars, cfVars, ncVars, itVars, gnVars>>

RECURSIVE verify_signed_data_loop(_, _, _, _, _)
\* The `for` loop of verify_signed_data from position i on, and the `if` after
\* it: what the function returns
verify_signed_data_loop(algs, i, found, spki, sd) ==
    IF i > Len(algs)
    THEN IF found THEN "UnsupportedSignatureAlgorithmForPublicKey"
         ELSE "UnsupportedSignatureAlgorithm"
    ELSE IF ~matches_algorithm_id_value(algs[i].signature_alg_id, sd.algorithm)
    THEN verify_signed_data_loop(algs, i + 1, found, spki, sd)
    ELSE Let(verify_signature(algs[i], spki, sd.data, sd.signature).result,
             LAMBDA result :
             IF result = "UnsupportedSignatureAlgorithmForPublicKey"
             THEN verify_signed_data_loop(algs, i + 1, TRUE, spki, sd)
             ELSE result)

\* verify_signed_data as a function of its arguments
verify_signed_data(algs, spki, sd) == verify_signed_data_loop(algs, 1, FALSE, spki, sd)

----------------------------------------------------------------------------
\* Name matching (crate::subject_name::dns_name and ::ip_address, described in
\* section 4.5 of the specification).  A match is "true", "false" or the name
\* of an Error variant.

DOT == 46

STAR == 42

HYPHEN == 45

Lower(b) == IF b \in 65..90 THEN b + 32 ELSE b

LowerAll(bytes) == [i \in 1..Len(bytes) |-> Lower(bytes[i])]

RECURSIVE SplitLabels(_)
\* The labels of a name: the byte strings between its dots
SplitLabels(bytes) ==
    IF \A i \in 1..Len(bytes) : bytes[i] # DOT THEN <<bytes>>
    ELSE LET d == CHOOSE i \in 1..Len(bytes) :
                      bytes[i] = DOT /\ \A j \in 1..(i - 1) : bytes[j] # DOT
         IN <<SubSeq(bytes, 1, d - 1)>>
                \o SplitLabels(SubSeq(bytes, d + 1, Len(bytes)))

LabelChar(b) == b \in (48..57) \cup (65..90) \cup (97..122) \cup {HYPHEN}

\* A label: 1 to 63 of [A-Za-z0-9-], no hyphen first or last
ValidLabel(l) ==
    /\ Len(l) \in 1..63
    /\ \A i \in 1..Len(l) : LabelChar(l[i])
    /\ l[1] # HYPHEN /\ l[Len(l)] # HYPHEN

\* A presented identifier: labels, the leftmost of which may be exactly "*";
\* no trailing dot; 253 octets at most
ValidPresentedId(bytes) ==
    LET ls == SplitLabels(bytes)
    IN /\ Len(bytes) <= 253
       /\ \A i \in 1..Len(ls) :
              ValidLabel(ls[i]) \/ (i = 1 /\ Len(ls) > 1 /\ ls[1] = <<STAR>>)

\* A reference identifier with its trailing dot stripped
StripTrailingDot(bytes) ==
    IF Len(bytes) > 0 /\ bytes[Len(bytes)] = DOT
    THEN SubSeq(bytes, 1, Len(bytes) - 1) ELSE bytes

\* A reference identifier: labels, at least one dot, no wildcard
ValidReferenceId(bytes) ==
    LET ls == SplitLabels(StripTrailingDot(bytes))
    IN /\ Len(bytes) <= 253
       /\ Len(ls) >= 2
       /\ \A i \in 1..Len(ls) : ValidLabel(ls[i])

\* dns_name::presented_id_matches_reference_id
dns_presented_id_matches_reference_id(presented, reference) ==
    IF ~ValidPresentedId(presented) \/ ~ValidReferenceId(reference)
    THEN "MalformedDnsIdentifier"
    ELSE LET p == SplitLabels(LowerAll(presented))
             r == SplitLabels(LowerAll(StripTrailingDot(reference)))
         IN IF /\ Len(p) = Len(r)
               /\ \A i \in 1..Len(p) : p[i] = r[i] \/ (i = 1 /\ p[1] = <<STAR>>)
            THEN "true" ELSE "false"

IsSuffix(suffix, bytes) ==
    /\ Len(suffix) <= Len(bytes)
    /\ SubSeq(bytes, Len(bytes) - Len(suffix) + 1, Len(bytes)) = suffix

\* dns_name::presented_id_matches_constraint: the constraint is a domain
\* suffix; the empty constraint matches everything
dns_presented_id_matches_constraint(presented, constraint) ==
    IF ~ValidPresentedId(presented) THEN "MalformedDnsIdentifier"
    ELSE IF constraint = << >> THEN "true"
    ELSE IF \/ LowerAll(presented) = LowerAll(constraint)
            \/ IsSuffix(<<DOT>> \o LowerAll(constraint), LowerAll(presented))
    THEN "true" ELSE "false"

\* ip_address::presented_id_matches_reference_id: equal octets
ip_presented_id_matches_reference_id(presented, reference) ==
    presented = reference

RECURSIVE BitAnd(_, _)
BitAnd(a, b) ==
    IF a = 0 \/ b = 0 THEN 0
    ELSE (a % 2) * (b % 2) + 2 * BitAnd(a \div 2, b \div 2)

PrefixOctets == {0, 128, 192, 224, 240, 248, 252, 254, 255}

\* A mask that is a contiguous prefix of one bits
ContiguousMask(mask) ==
    /\ \A i \in 1..Len(mask) : mask[i] \in PrefixOctets
    /\ \A i \in 1..(Len(mask) - 1) : mask[i] # 255 => mask[i + 1] = 0

\* ip_address::presented_id_matches_constraint: the constraint is
\* address || mask, 8 or 32 octets; a mask that is no contiguous prefix
\* rejects the certificate
ip_presented_id_matches_constraint(presented, constraint) ==
    IF Len(presented) \notin {4, 16} THEN "BadDer"
    ELSE IF Len(constraint) \notin {8, 32} THEN "InvalidNetworkMaskConstraint"
    ELSE IF Len(constraint) # 2 * Len(presented) THEN "false"
    ELSE LET n == Len(presented)
             address == SubSeq(constraint, 1, n)
             mask == SubSeq(constraint, n + 1, 2 * n)
         IN IF ~ContiguousMask(mask) THEN "InvalidNetworkMaskConstraint"
            ELSE IF \A i \in 1..n :
                        BitAnd(presented[i], mask[i]) = BitAnd(address[i], mask[i])
            THEN "true" ELSE "false"

----------------------------------------------------------------------------
\* src/subject_name/verify.rs: GeneralName, common_name, NameIterator

DNS_NAME_TAG == CONTEXT_SPECIFIC + 2

DIRECTORY_NAME_TAG == CONTEXT_SPECIFIC + CONSTRUCTED + 4

UNIFORM_RESOURCE_IDENTIFIER_TAG == CONTEXT_SPECIFIC + 6

IP_ADDRESS_TAG == CONTEXT_SPECIFIC + 7

OTHER_NAME_TAG == CONTEXT_SPECIFIC + CONSTRUCTED + 0

RFC822_NAME_TAG == CONTEXT_SPECIFIC + 1

X400_ADDRESS_TAG == CONTEXT_SPECIFIC + CONSTRUCTED + 3

EDI_PARTY_NAME_TAG == CONTEXT_SPECIFIC + CONSTRUCTED + 5

REGISTERED_ID_TAG == CONTEXT_SPECIFIC + 8

\* enum GeneralName.  Unsupported keeps the tag number and not the value.
DnsName(value) == [kind |-> "DnsName", value |-> value, tag |-> 0]

DirectoryName(value) == [kind |-> "DirectoryName", value |-> value, tag |-> 0]

IpAddress(value) == [kind |-> "IpAddress", value |-> value, tag |-> 0]

UniformResourceIdentifier(value) ==
    [kind |-> "UniformResourceIdentifier", value |-> value, tag |-> 0]

Unsupported(tag) == [kind |-> "Unsupported", value |-> << >>, tag |-> tag]

NoName == [kind |-> "", value |-> << >>, tag |-> 0]

\* tag & !(CONTEXT_SPECIFIC | CONSTRUCTED), for a tag byte
ClearClassBits(tag) == (tag % 32) + 64 * ((tag \div 64) % 2)

\* A plausible slip: every tag but the four that are matched is kept as
\* Unsupported.
GeneralName_from_der_any_tag(reader) ==
    LET r == read_tag_and_get_value(reader)
    IN IF ~r.ok THEN [ok |-> FALSE, name |-> NoName, err |-> "BadDer", rest |-> << >>]
       ELSE [ok |-> TRUE, err |-> "", rest |-> r.rest,
             name |-> CASE r.tag = DNS_NAME_TAG -> DnsName(r.value)
                        [] r.tag = DIRECTORY_NAME_TAG -> DirectoryName(r.value)
                        [] r.tag = IP_ADDRESS_TAG -> IpAddress(r.value)
                        [] r.tag = UNIFORM_RESOURCE_IDENTIFIER_TAG ->
                               UniformResourceIdentifier(r.value)
                        [] OTHER -> Unsupported(ClearClassBits(r.tag))]

\* GeneralName::from_der
GeneralName_from_der(reader) ==
    LET r == read_tag_and_get_value(reader)
    IN IF ~r.ok THEN [ok |-> FALSE, name |-> NoName, err |-> "BadDer", rest |-> << >>]
       ELSE IF r.tag \in {DNS_NAME_TAG, DIRECTORY_NAME_TAG, IP_ADDRESS_TAG,
                          UNIFORM_RESOURCE_IDENTIFIER_TAG, OTHER_NAME_TAG,
                          RFC822_NAME_TAG, X400_ADDRESS_TAG, EDI_PARTY_NAME_TAG,
                          REGISTERED_ID_TAG}
       THEN [ok |-> TRUE, err |-> "", rest |-> r.rest,
             name |-> CASE r.tag = DNS_NAME_TAG -> DnsName(r.value)
                        [] r.tag = DIRECTORY_NAME_TAG -> DirectoryName(r.value)
                        [] r.tag = IP_ADDRESS_TAG -> IpAddress(r.value)
                        [] r.tag = UNIFORM_RESOURCE_IDENTIFIER_TAG ->
                               UniformResourceIdentifier(r.value)
                        [] OTHER -> Unsupported(ClearClassBits(r.tag))]
       ELSE [ok |-> FALSE, name |-> NoName, err |-> "BadDer", rest |-> << >>]

\* One call of GeneralName::from_der
FromDer ==
    /\ gn_result.err = "pending"
    /\ gn_result' = GeneralName_from_der(gn_input)
    /\ UNCHANGED gn_input
    /\ UNCHANGED <<sdVars, nvVars, cfVars, ncVars, itVars>>

\* static COMMON_NAME
COMMON_NAME == <<85, 4, 3>>

BadCn == [err |-> "BadDer", cn |-> None, rest |-> << >>]

RECURSIVE common_name_loop(_)
\* The `while` loop of common_name over the attribute's SEQUENCE: what the
\* closure returns, and what it leaves unread.
common_name_loop(tagged) ==
    IF at_end(tagged) THEN [err |-> "", cn |-> None, rest |-> tagged]
    ELSE Let(expect_tag_and_get_value(tagged, OID_TAG), LAMBDA name_oid :
         IF ~name_oid.ok THEN BadCn
         ELSE IF name_oid.value = COMMON_NAME
         THEN Let(expect_tag_and_get_value(name_oid.rest, UTF8_STRING_TAG), LAMBDA v :
                  IF v.ok THEN [err |-> "", cn |-> Some(v.value), rest |-> v.rest]
                  ELSE BadCn)
         ELSE Let(read_tag_and_get_value(name_oid.rest), LAMBDA v :
                  IF v.ok THEN common_name_loop(v.rest) ELSE BadCn))

\* der::nested: one value of the tag is read, and its decoder must read all
\* of that value
nested(input, tag, decoder(_)) ==
    Let(expect_tag_and_get_value(input, tag), LAMBDA tlv :
        IF ~tlv.ok THEN BadCn
        ELSE Let(decoder(tlv.value), LAMBDA r :
                 IF r.err # "" THEN [r EXCEPT !.rest = << >>]
                 ELSE IF ~at_end(r.rest) THEN BadCn
                 ELSE [r EXCEPT !.rest = tlv.rest]))

\* The inner der::nested of common_name
common_name_sequence(tagged) == nested(tagged, SEQUENCE_TAG, common_name_loop)

\* common_name: der::nested(SET, der::nested(SEQUENCE, loop)) on a reader of
\* the subject, of which only the first SET is read
common_name(input) == nested(input, SET_TAG, common_name_sequence)

\* struct NameIterator
NameIterator(subject_alt_name, subject_directory_name, subject_common_name) ==
    [subject_alt_name |-> subject_alt_name,
     subject_directory_name |-> subject_directory_name,
     subject_common_name |-> subject_common_name]

\* A plausible slip: the Common Name yielded whatever the caller's policy.
NameIterator_new_always_cn(subject, subject_alt_name, contents) ==
    NameIterator(subject_alt_name, subject, subject)

\* NameIterator::new
NameIterator_new(subject, subject_alt_name, contents) ==
    IF IsSome(subject) /\ contents = "DnsName"
    THEN NameIterator(subject_alt_name, subject, subject)
    ELSE IF IsSome(subject)
    THEN NameIterator(subject_alt_name, subject, None)
    ELSE NameIterator(subject_alt_name, None, None)

\* An item of the iterator: Ok(name) or Err(err)
OkItem(name) == [ok |-> TRUE, name |-> name, err |-> ""]

ErrItem(err) == [ok |-> FALSE, name |-> NoName, err |-> err]

\* A plausible slip: the subject is not taken out of the iterator when it is
\* yielded.
NameIterator_next_subject_kept(self) ==
    IF IsSome(self.subject_alt_name) /\ ~at_end(Unwrap(self.subject_alt_name))
    THEN Let(GeneralName_from_der(Unwrap(self.subject_alt_name)), LAMBDA g :
             IF g.ok
             THEN [item |-> Some(OkItem(g.name)),
                   iter |-> [self EXCEPT !.subject_alt_name = Some(g.rest)]]
             ELSE [item |-> Some(ErrItem(g.err)),
                   iter |-> NameIterator(None, None, None)])
    ELSE IF IsSome(self.subject_directory_name)
    THEN [item |-> Some(OkItem(DirectoryName(Unwrap(self.subject_directory_name)))),
          iter |-> NameIterator(None, self.subject_directory_name,
                                self.subject_common_name)]
    ELSE IF IsSome(self.subject_common_name)
    THEN Let(common_name(Unwrap(self.subject_common_name)), LAMBDA c :
             IF c.err # "" THEN [item |-> Some(ErrItem(c.err)),
                                 iter |-> NameIterator(None, None, None)]
             ELSE IF IsSome(c.cn)
             THEN [item |-> Some(OkItem(DnsName(Unwrap(c.cn)))),
                   iter |-> NameIterator(None, None, None)]
             ELSE [item |-> None, iter |-> NameIterator(None, None, None)])
    ELSE [item |-> None, iter |-> NameIterator(None, None, None)]

\* A plausible slip: a subjectAltName entry that does not parse ends the
\* subjectAltName only.
NameIterator_next_err_ends_san(self) ==
    IF IsSome(self.subject_alt_name) /\ ~at_end(Unwrap(self.subject_alt_name))
    THEN Let(GeneralName_from_der(Unwrap(self.subject_alt_name)), LAMBDA g :
             IF g.ok
             THEN [item |-> Some(OkItem(g.name)),
                   iter |-> [self EXCEPT !.subject_alt_name = Some(g.rest)]]
             ELSE [item |-> Some(ErrItem(g.err)),
                   iter |-> [self EXCEPT !.subject_alt_name = None]])
    ELSE IF IsSome(self.subject_directory_name)
    THEN [item |-> Some(OkItem(DirectoryName(Unwrap(self.subject_directory_name)))),
          iter |-> NameIterator(None, None, self.subject_common_name)]
    ELSE IF IsSome(self.subject_common_name)
    THEN Let(common_name(Unwrap(self.subject_common_name)), LAMBDA c :
             IF c.err # "" THEN [item |-> Some(ErrItem(c.err)),
                                 iter |-> NameIterator(None, None, None)]
             ELSE IF IsSome(c.cn)
             THEN [item |-> Some(OkItem(DnsName(Unwrap(c.cn)))),
                   iter |-> NameIterator(None, None, None)]
             ELSE [item |-> None, iter |-> NameIterator(None, None, None)])
    ELSE [item |-> None, iter |-> NameIterator(None, None, None)]

\* NameIterator::next: the Option<Item> it returns, and the iterator after it
NameIterator_next(self) ==
    IF IsSome(self.subject_alt_name) /\ ~at_end(Unwrap(self.subject_alt_name))
    THEN Let(GeneralName_from_der(Unwrap(self.subject_alt_name)), LAMBDA g :
             IF g.ok
             THEN [item |-> Some(OkItem(g.name)),
                   iter |-> [self EXCEPT !.subject_alt_name = Some(g.rest)]]
             ELSE [item |-> Some(ErrItem(g.err)),
                   iter |-> NameIterator(None, None, None)])
    ELSE IF IsSome(self.subject_directory_name)
    THEN [item |-> Some(OkItem(DirectoryName(Unwrap(self.subject_directory_name)))),
          iter |-> NameIterator(None, None, self.subject_common_name)]
    ELSE IF IsSome(self.subject_common_name)
    THEN Let(common_name(Unwrap(self.subject_common_name)), LAMBDA c :
             IF c.err # "" THEN [item |-> Some(ErrItem(c.err)),
                                 iter |-> NameIterator(None, None, None)]
             ELSE IF IsSome(c.cn)
             THEN [item |-> Some(OkItem(DnsName(Unwrap(c.cn)))),
                   iter |-> NameIterator(None, None, None)]
             ELSE [item |-> None, iter |-> NameIterator(None, None, None)])
    ELSE [item |-> None, iter |-> NameIterator(None, None, None)]

\* The calls of next() on one iterator that MaxNextCalls allows
MaxNextCalls == 7

\* One call of NameIterator::next
IterNext ==
    /\ Len(returned) < MaxNextCalls
    /\ \E n \in {NameIterator_next(it_iter)} :
           /\ it_iter' = n.iter
           /\ returned' = Append(returned, n.item)
    /\ UNCHANGED <<it_subject, it_subject_alt_name, it_contents>>
    /\ UNCHANGED <<sdVars, nvVars, cfVars, ncVars, gnVars>>

----------------------------------------------------------------------------
\* src/subject_name/verify.rs: verify_cert_dns_name, verify_cert_subject_name

\* A plausible slip: a malformed presented identifier ends the scan.
dns_name_closure_malformed_ends(item, dns_name) ==
    IF ~item.ok THEN item.err
    ELSE IF item.name.kind # "DnsName" THEN "continue"
    ELSE LET m == dns_presented_id_matches_reference_id(item.name.value, dns_name)
         IN CASE m = "true" -> "Ok"
              [] m = "false" -> "continue"
              [] OTHER -> m

\* A plausible slip: an entry that does not parse is passed over.
dns_name_closure_skips_err(item, dns_name) ==
    IF ~item.ok THEN "continue"
    ELSE IF item.name.kind # "DnsName" THEN "continue"
    ELSE LET m == dns_presented_id_matches_reference_id(item.name.value, dns_name)
         IN CASE m = "true" -> "Ok"
              [] m \in {"false", "MalformedDnsIdentifier"} -> "continue"
              [] OTHER -> m

\* The closure verify_cert_dns_name gives find_map: "continue" for None
dns_name_closure(item, dns_name) ==
    IF ~item.ok THEN item.err
    ELSE IF item.name.kind # "DnsName" THEN "continue"
    ELSE LET m == dns_presented_id_matches_reference_id(item.name.value, dns_name)
         IN CASE m = "true" -> "Ok"
              [] m \in {"false", "MalformedDnsIdentifier"} -> "continue"
              [] OTHER -> m

\* A plausible slip: the octets compared whatever the form of the name.
ip_address_closure_any_form(item, ip_address) ==
    IF ~item.ok THEN item.err
    ELSE IF ip_presented_id_matches_reference_id(item.name.value, ip_address)
    THEN "Ok" ELSE "continue"

\* The closure verify_cert_subject_name gives find_map: "continue" for None
ip_address_closure(item, ip_address) ==
    IF ~item.ok THEN item.err
    ELSE IF item.name.kind # "IpAddress" THEN "continue"
    ELSE IF ip_presented_id_matches_reference_id(item.name.value, ip_address)
    THEN "Ok" ELSE "continue"

\* verify_cert_dns_name is called: it makes its iterator.
VerifyCertDnsNameEntry ==
    /\ nv_pc = "entry"
    /\ nv_op = "verify_cert_dns_name"
    /\ nv_iter' = NameIterator_new(Some(cert.subject), cert.subject_alt_name, "Ignore")
    /\ nv_pc' = "dns"
    /\ UNCHANGED <<cert, subject_name, nv_op, nv_yielded, nv_result, names>>
    /\ UNCHANGED <<sdVars, cfVars, ncVars, itVars, gnVars>>

\* verify_cert_subject_name is called: a DNS name goes to verify_cert_dns_name,
\* an IP address gets an iterator without the subject.
VerifyCertSubjectNameEntry ==
    /\ nv_pc = "entry"
    /\ nv_op = "verify_cert_subject_name"
    /\ IF subject_name.kind = "DnsName"
       THEN /\ nv_iter' = NameIterator_new(Some(cert.subject), cert.subject_alt_name,
                                           "Ignore")
            /\ nv_pc' = "dns"
       ELSE /\ nv_iter' = NameIterator_new(None, cert.subject_alt_name, "Ignore")
            /\ nv_pc' = "ip"
    /\ UNCHANGED <<cert, subject_name, nv_op, nv_yielded, nv_result, names>>
    /\ UNCHANGED <<sdVars, cfVars, ncVars, itVars, gnVars>>

\* One step of find_map: the next item of the iterator goes to the closure;
\* the end of the iterator is CertNotValidForName (unwrap_or).
FindMapStep(closure_result(_)) ==
    LET n == NameIterator_next(nv_iter)
    IN /\ nv_iter' = n.iter
       /\ nv_yielded' = nv_yielded \o n.item
       /\ nv_result' = IF ~IsSome(n.item) THEN "CertNotValidForName"
                       ELSE IF closure_result(Unwrap(n.item)) = "continue"
                       THEN "pending"
                       ELSE closure_result(Unwrap(n.item))

\* find_map of verify_cert_dns_name
DnsNameFindMap ==
    /\ nv_pc = "dns"
    /\ nv_result = "pending"
    /\ LET closure_result(item) == dns_name_closure(item, subject_name.value)
       IN FindMapStep(closure_result)
    /\ UNCHANGED <<cert, subject_name, nv_op, nv_pc, names>>
    /\ UNCHANGED <<sdVars, cfVars, ncVars, itVars, gnVars>>

\* find_map of verify_cert_subject_name, for an IP address
IpAddressFindMap ==
    /\ nv_pc = "ip"
    /\ nv_result = "pending"
    /\ LET closure_result(item) == ip_address_closure(item, subject_name.value)
       IN FindMapStep(closure_result)
    /\ UNCHANGED <<cert, subject_name, nv_op, nv_pc, names>>
    /\ UNCHANGED <<sdVars, cfVars, ncVars, itVars, gnVars>>

\* DnsNameRef::try_from_ascii or WildcardDnsNameRef::try_from_ascii accepts
\* the bytes: a DNS name, or one whose leftmost label is "*"
try_from_ascii_is_ok(bytes) == ValidPresentedId(bytes)

\* A plausible slip: names that are no DNS names are listed too.
list_dns_names_closure_unchecked(item) ==
    IF ~item.ok THEN [ret |-> item.err, push |-> << >>]
    ELSE IF item.name.kind # "DnsName" THEN [ret |-> "continue", push |-> << >>]
    ELSE [ret |-> "continue", push |-> <<item.name.value>>]

\* The closure list_cert_dns_names gives find_map: the Error of Some(err) or
\* "continue" for None, and what it pushes to `names`
list_dns_names_closure(item) ==
    IF ~item.ok THEN [ret |-> item.err, push |-> << >>]
    ELSE IF item.name.kind # "DnsName" THEN [ret |-> "continue", push |-> << >>]
    ELSE IF try_from_ascii_is_ok(item.name.value)
    THEN [ret |-> "continue", push |-> <<item.name.value>>]
    ELSE [ret |-> "continue", push |-> << >>]

\* list_cert_dns_names is called: it makes its iterator.
ListCertDnsNamesEntry ==
    /\ nv_pc = "entry"
    /\ nv_op = "list_cert_dns_names"
    /\ nv_iter' = NameIterator_new(Some(cert.subject), cert.subject_alt_name, "DnsName")
    /\ nv_pc' = "list"
    /\ UNCHANGED <<cert, subject_name, nv_op, nv_yielded, nv_result, names>>
    /\ UNCHANGED <<sdVars, cfVars, ncVars, itVars, gnVars>>

\* One step of find_map of list_cert_dns_names, and the `match result` after
\* it: Err(err), or Ok with the names pushed
ListCertDnsNamesFindMap ==
    /\ nv_pc = "list"
    /\ nv_result = "pending"
    /\ \E n \in {NameIterator_next(nv_iter)} :
           /\ nv_iter' = n.iter
           /\ nv_yielded' = nv_yielded \o n.item
           /\ IF ~IsSome(n.item)
              THEN nv_result' = "Ok" /\ UNCHANGED names
              ELSE \E c \in {list_dns_names_closure(Unwrap(n.item))} :
                       /\ names' = names \o c.push
                       /\ nv_result' = IF c.ret = "continue" THEN "pending" ELSE c.ret
    /\ UNCHANGED <<cert, subject_name, nv_op, nv_pc>>
    /\ UNCHANGED <<sdVars, cfVars, ncVars, itVars, gnVars>>

----------------------------------------------------------------------------
\* src/subject_name/verify.rs: name constraints

\* A plausible slip: what follows the GeneralName in the SEQUENCE is ignored.
general_subtree_trailing_ignored(input) ==
    Let(expect_tag_and_get_value(input, SEQUENCE_TAG), LAMBDA s :
        IF ~s.ok THEN [ok |-> FALSE, name |-> NoName, err |-> "BadDer", rest |-> << >>]
        ELSE Let(GeneralName_from_der(s.value), LAMBDA g :
                 IF ~g.ok THEN [g EXCEPT !.rest = << >>]
                 ELSE [g EXCEPT !.rest = s.rest]))

\* general_subtree: a SEQUENCE holding exactly one GeneralName
general_subtree(input) ==
    Let(expect_tag_and_get_value(input, SEQUENCE_TAG), LAMBDA s :
        IF ~s.ok THEN [ok |-> FALSE, name |-> NoName, err |-> "BadDer", rest |-> << >>]
        ELSE Let(GeneralName_from_der(s.value), LAMBDA g :
                 IF ~g.ok THEN [g EXCEPT !.rest = << >>]
                 ELSE IF ~at_end(g.rest)
                 THEN [ok |-> FALSE, name |-> NoName, err |-> "BadDer", rest |-> << >>]
                 ELSE [g EXCEPT !.rest = s.rest]))

\* A plausible slip: a directoryName in permittedSubtrees matches.
name_matches_directory_permitted(name, base, subtrees) ==
    CASE name.kind = "DnsName" /\ base.kind = "DnsName" ->
             dns_presented_id_matches_constraint(name.value, base.value)
      [] name.kind = "DirectoryName" /\ base.kind = "DirectoryName" -> "true"
      [] name.kind = "IpAddress" /\ base.kind = "IpAddress" ->
             ip_presented_id_matches_constraint(name.value, base.value)
      [] name.kind = "Unsupported" /\ base.kind = "Unsupported"
             /\ name.tag = base.tag -> "NameConstraintViolation"
      [] OTHER -> "continue"

\* A plausible slip: unsupported forms compared without their tag numbers.
name_matches_any_unsupported(name, base, subtrees) ==
    CASE name.kind = "DnsName" /\ base.kind = "DnsName" ->
             dns_presented_id_matches_constraint(name.value, base.value)
      [] name.kind = "DirectoryName" /\ base.kind = "DirectoryName" ->
             IF subtrees = "PermittedSubtrees" THEN "false" ELSE "true"
      [] name.kind = "IpAddress" /\ base.kind = "IpAddress" ->
             ip_presented_id_matches_constraint(name.value, base.value)
      [] name.kind = "Unsupported" /\ base.kind = "Unsupported" ->
             "NameConstraintViolation"
      [] OTHER -> "continue"

\* A plausible slip: a uniformResourceIdentifier constrained the way a
\* directoryName is.
name_matches_uri_constrained(name, base, subtrees) ==
    CASE name.kind = "DnsName" /\ base.kind = "DnsName" ->
             dns_presented_id_matches_constraint(name.value, base.value)
      [] name.kind = "DirectoryName" /\ base.kind = "DirectoryName" ->
             IF subtrees = "PermittedSubtrees" THEN "false" ELSE "true"
      [] name.kind = "UniformResourceIdentifier"
             /\ base.kind = "UniformResourceIdentifier" ->
             IF subtrees = "PermittedSubtrees" THEN "false" ELSE "true"
      [] name.kind = "IpAddress" /\ base.kind = "IpAddress" ->
             ip_presented_id_matches_constraint(name.value, base.value)
      [] name.kind = "Unsupported" /\ base.kind = "Unsupported"
             /\ name.tag = base.tag -> "NameConstraintViolation"
      [] OTHER -> "continue"

\* `let matches = match (name, base)`: "true" or "false" for Ok(bool), the
\* Error for Err, "continue" for the arm that goes on to the next constraint
name_matches(name, base, subtrees) ==
    CASE name.kind = "DnsName" /\ base.kind = "DnsName" ->
             dns_presented_id_matches_constraint(name.value, base.value)
      [] name.kind = "DirectoryName" /\ base.kind = "DirectoryName" ->
             IF subtrees = "PermittedSubtrees" THEN "false" ELSE "true"
      [] name.kind = "IpAddress" /\ base.kind = "IpAddress" ->
             ip_presented_id_matches_constraint(name.value, base.value)
      [] name.kind = "Unsupported" /\ base.kind = "Unsupported"
             /\ name.tag = base.tag -> "NameConstraintViolation"
      [] OTHER -> "continue"

\* What the `while` loop has come to: `ret` is what the function returns from
\* inside the loop ("" while it has not returned), with the two flags
LoopState(ret, has_match, has_mismatch) ==
    [ret |-> ret, has_permitted_subtrees_match |-> has_match,
     has_permitted_subtrees_mismatch |-> has_mismatch]

RECURSIVE constraints_loop(_, _, _, _, _)
\* The `while !constraints.at_end()` loop over one list
constraints_loop(name, subtrees, constraints, has_match, has_mismatch) ==
    IF at_end(constraints) THEN LoopState("", has_match, has_mismatch)
    ELSE Let(general_subtree(constraints), LAMBDA base :
         IF ~base.ok THEN LoopState(base.err, has_match, has_mismatch)
         ELSE Let(name_matches(name, base.name, subtrees), LAMBDA matches :
              CASE matches = "continue" ->
                       constraints_loop(name, subtrees, base.rest, has_match,
                                        has_mismatch)
                [] subtrees = "PermittedSubtrees" /\ matches = "true" ->
                       constraints_loop(name, subtrees, base.rest, TRUE,
                                        has_mismatch)
                [] subtrees = "PermittedSubtrees" /\ matches = "false" ->
                       constraints_loop(name, subtrees, base.rest, has_match,
                                        TRUE)
                [] subtrees = "ExcludedSubtrees" /\ matches = "true" ->
                       LoopState("NameConstraintViolation", has_match,
                                 has_mismatch)
                [] subtrees = "ExcludedSubtrees" /\ matches = "false" ->
                       constraints_loop(name, subtrees, base.rest, has_match,
                                        has_mismatch)
                [] OTHER -> LoopState(matches, has_match, has_mismatch)))

\* One round of `for (subtrees, constraints) in subtrees`: what the function
\* returns in it, "" to go on
subtrees_round(name, subtrees, constraints) ==
    IF ~IsSome(constraints) THEN ""
    ELSE Let(constraints_loop(name, subtrees, Unwrap(constraints), FALSE, FALSE),
             LAMBDA loop :
             IF loop.ret # "" THEN loop.ret
             ELSE IF loop.has_permitted_subtrees_mismatch
                     /\ ~loop.has_permitted_subtrees_match
             THEN "NameConstraintViolation"
             ELSE "")

\* A plausible slip: a name that a permitted subtree matches is not checked
\* against the excluded subtrees.
conforms_permitted_wins(name, permitted, excluded) ==
    Let(subtrees_round(name, "PermittedSubtrees", permitted), LAMBDA p :
        IF p # "" THEN p
        ELSE IF IsSome(permitted)
                /\ constraints_loop(name, "PermittedSubtrees", Unwrap(permitted),
                                    FALSE, FALSE).has_permitted_subtrees_match
        THEN "None"
        ELSE Let(subtrees_round(name, "ExcludedSubtrees", excluded), LAMBDA e :
                 IF e # "" THEN e ELSE "None"))

\* check_presented_id_conforms_to_constraints: "None", or the Error of
\* Some(Err(..))
check_presented_id_conforms_to_constraints(name, permitted, excluded) ==
    Let(subtrees_round(name, "PermittedSubtrees", permitted), LAMBDA p :
        IF p # "" THEN p
        ELSE Let(subtrees_round(name, "ExcludedSubtrees", excluded), LAMBDA e :
                 IF e # "" THEN e ELSE "None"))

\* The function applied to one name and two lists
ConformsCall ==
    /\ cf_result = "pending"
    /\ cf_result' = check_presented_id_conforms_to_constraints(
                        cf_name, cf_permitted_subtrees, cf_excluded_subtrees)
    /\ UNCHANGED <<cf_name, cf_permitted_subtrees, cf_excluded_subtrees>>
    /\ UNCHANGED <<sdVars, nvVars, ncVars, itVars, gnVars>>

\* parse_subtrees: the Option<Input> it returns and the reader after it
parse_subtrees(inner, subtrees_tag) ==
    IF ~peek(inner, subtrees_tag)
    THEN [ok |-> TRUE, subtrees |-> None, rest |-> inner]
    ELSE LET r == expect_tag_and_get_value(inner, subtrees_tag)
         IN IF r.ok THEN [ok |-> TRUE, subtrees |-> Some(r.value), rest |-> r.rest]
            ELSE [ok |-> FALSE, subtrees |-> None, rest |-> << >>]

\* The closure check_name_constraints gives to find_map: "None", or the
\* Error of Some(Err(..))
conforms_closure(item, permitted, excluded) ==
    IF ~item.ok THEN item.err
    ELSE check_presented_id_conforms_to_constraints(item.name, permitted, excluded)

RECURSIVE find_map_conforms(_, _, _)
\* find_map over the names of one certificate with the closure of
\* check_name_constraints: "None", or the Error of the first Some(Err(..))
find_map_conforms(iter, permitted, excluded) ==
    Let(NameIterator_next(iter), LAMBDA n :
        IF ~IsSome(n.item) THEN "None"
        ELSE Let(conforms_closure(Unwrap(n.item), permitted, excluded), LAMBDA c :
                 IF c # "None" THEN c
                 ELSE find_map_conforms(n.iter, permitted, excluded)))

\* check_name_constraints up to its loop: no input is Ok; otherwise the two
\* lists are read from the input.
CheckNameConstraintsEntry ==
    /\ nc_result = "pending"
    /\ child = 0
    /\ IF ~IsSome(nc_input)
       THEN /\ nc_result' = "Ok"
            /\ UNCHANGED <<permitted_subtrees, excluded_subtrees, child>>
       ELSE LET p == parse_subtrees(Unwrap(nc_input), CONTEXT_SPECIFIC + CONSTRUCTED + 0)
                e == parse_subtrees(p.rest, CONTEXT_SPECIFIC + CONSTRUCTED + 1)
            IN IF p.ok /\ e.ok
               THEN /\ permitted_subtrees' = p.subtrees
                    /\ excluded_subtrees' = e.subtrees
                    /\ child' = 1
                    /\ UNCHANGED nc_result
               ELSE /\ nc_result' = "BadDer"
                    /\ UNCHANGED <<permitted_subtrees, excluded_subtrees, child>>
    /\ UNCHANGED <<nc_input, chain, subject_common_name_contents>>
    /\ UNCHANGED <<sdVars, nvVars, cfVars, itVars, gnVars>>

\* A plausible slip: only the first certificate is checked.
CheckNameConstraintsFirstOnly ==
    /\ nc_result = "pending"
    /\ child >= 1
    /\ LET result == find_map_conforms(
                         NameIterator_new(Some(chain[child].subject),
                                          chain[child].subject_alt_name,
                                          subject_common_name_contents),
                         permitted_subtrees, excluded_subtrees)
       IN /\ nc_result' = IF result # "None" THEN result ELSE "Ok"
          /\ UNCHANGED child
    /\ UNCHANGED <<nc_input, chain, subject_common_name_contents,
                   permitted_subtrees, excluded_subtrees>>
    /\ UNCHANGED <<sdVars, nvVars, cfVars, itVars, gnVars>>

\* One round of the loop of check_name_constraints: the names of `child` are
\* checked; an error is returned, otherwise the loop follows ee_or_ca, and
\* ends with Ok at the end-entity certificate (the last of the chain).
CheckNameConstraintsLoop ==
    /\ nc_result = "pending"
    /\ child >= 1
    /\ LET result == find_map_conforms(
                         NameIterator_new(Some(chain[child].subject),
                                          chain[child].subject_alt_name,
                                          subject_common_name_contents),
                         permitted_subtrees, excluded_subtrees)
       IN IF result # "None"
          THEN nc_result' = result /\ UNCHANGED child
          ELSE IF child < Len(chain)
          THEN child' = child + 1 /\ UNCHANGED nc_result
          ELSE nc_result' = "Ok" /\ UNCHANGED child
    /\ UNCHANGED <<nc_input, chain, subject_common_name_contents,
                   permitted_subtrees, excluded_subtrees>>
    /\ UNCHANGED <<sdVars, nvVars, cfVars, itVars, gnVars>>

----------------------------------------------------------------------------
\* The inputs of verify_signed_data

\* The longest list of supported algorithms
MaxAlgs == 2

SigAlgIds == {<<1>>, <<1, 2>>}

SignedAlgIds == {<<1>>, <<1, 2>>, <<2>>}

KeyAlgIds == {<<7>>, <<7, 8>>}

Keys == {<<5>>, <<6>>}

Messages == {<<9>>}

Signatures == {<<3>>, <<4>>}

AllTriples == Keys \X Messages \X Signatures

\* The callbacks: one accepts everything, one a single signature of one key
AcceptTables == {AllTriples, {<< <<5>>, <<9>>, <<3>> >>}}

Algorithms ==
    [signature_alg_id : SigAlgIds, public_key_alg_id : KeyAlgIds,
     accepts : AcceptTables]

SeqsUpTo(S, n) == UNION {[1..k -> S] : k \in 0..n}

SpkiDer(alg_id, unused_bits, key) ==
    Tlv(SEQUENCE_TAG, alg_id) \o Tlv(BIT_STRING_TAG, <<unused_bits>> \o key)

WellFormedSpkis == {SpkiDer(a, 0, k) : a \in KeyAlgIds \cup {<<2>>}, k \in Keys}

MalformedSpkis ==
    { << >>,
      SpkiDer(<<7>>, 0, <<5>>) \o <<0>>,
      SpkiDer(<<7>>, 1, <<5>>),
      Tlv(SET_TAG, <<7>>) \o Tlv(BIT_STRING_TAG, <<0, 5>>),
      Tlv(SEQUENCE_TAG, <<7>>),
      Tlv(SEQUENCE_TAG, <<7>>) \o <<BIT_STRING_TAG, 3, 0, 5>> }

\* No call of the name verification is under way.
NameIdle ==
    /\ cert = [subject |-> << >>, subject_alt_name |-> None]
    /\ subject_name = [kind |-> "DnsName", value |-> << >>]
    /\ nv_op = "none"
    /\ nv_pc = "idle"
    /\ nv_iter = NameIterator(None, None, None)
    /\ nv_yielded = << >>
    /\ nv_result = "idle"
    /\ names = << >>

\* No call of check_presented_id_conforms_to_constraints is under way.
ConformsIdle ==
    /\ cf_name = NoName
    /\ cf_permitted_subtrees = None
    /\ cf_excluded_subtrees = None
    /\ cf_result = "idle"

\* No call of check_name_constraints is under way.
ConstraintsIdle ==
    /\ nc_input = None
    /\ chain = << >>
    /\ subject_common_name_contents = "Ignore"
    /\ permitted_subtrees = None
    /\ excluded_subtrees = None
    /\ child = 0
    /\ nc_result = "idle"

\* GeneralName::from_der is not running.
FromDerIdle ==
    /\ gn_input = << >>
    /\ gn_result = [ok |-> FALSE, name |-> NoName, err |-> "idle", rest |-> << >>]

\* No iterator is in use.
IterIdle ==
    /\ it_subject = None
    /\ it_subject_alt_name = None
    /\ it_contents = "Ignore"
    /\ it_iter = NameIterator(None, None, None)
    /\ returned = << >>

\* No call of verify_signed_data is under way.
SigIdle ==
    /\ supported_algorithms = << >>
    /\ spki_value = << >>
    /\ signed_data = [data |-> << >>, algorithm |-> << >>, signature |-> << >>]
    /\ sd_next = 1
    /\ found_signature_alg_match = FALSE
    /\ sd_result = "idle"
    /\ sd_calls = << >>

InitSig ==
    /\ NameIdle /\ ConformsIdle /\ ConstraintsIdle /\ IterIdle /\ FromDerIdle
    /\ supported_algorithms \in SeqsUpTo(Algorithms, MaxAlgs)
    /\ spki_value \in WellFormedSpkis \cup MalformedSpkis
    /\ signed_data \in [data : Messages, algorithm : SignedAlgIds,
                        signature : Signatures]
    /\ sd_next = 1
    /\ found_signature_alg_match = FALSE
    /\ sd_result = "pending"
    /\ sd_calls = << >>

NextSig == SigFiltered \/ SigBody \/ SigExhausted

SpecSig == InitSig /\ [][NextSig]_vars

----------------------------------------------------------------------------
\* The inputs of the name verification

\* The most entries of a subjectAltName
MaxSanEntries == 2

\* "a.b.c", "*.b.c", "c.b.c", "A.B.C", "d.b.c" and the malformed "a..c"
Name_a_b_c == <<97, 46, 98, 46, 99>>

Name_star_b_c == <<42, 46, 98, 46, 99>>

Name_c_b_c == <<99, 46, 98, 46, 99>>

Name_A_B_C == <<65, 46, 66, 46, 67>>

Name_d_b_c == <<100, 46, 98, 46, 99>>

Name_a__c == <<97, 46, 46, 99>>

Ip_10_0_0_1 == <<10, 0, 0, 1>>

Ip_v6 == <<32, 1, 0, 0, 0, 0, 0, 0, 0, 0, 0, 0, 0, 0, 0, 1>>

\* The encoded general names a subjectAltName is made of; the last does not
\* parse (its tag is no general name).
SanEntries ==
    { Tlv(DNS_NAME_TAG, Name_a_b_c),
      Tlv(DNS_NAME_TAG, Name_star_b_c),
      Tlv(DNS_NAME_TAG, Name_c_b_c),
      Tlv(DNS_NAME_TAG, Name_a__c),
      Tlv(DNS_NAME_TAG, Ip_10_0_0_1),
      Tlv(IP_ADDRESS_TAG, Ip_10_0_0_1),
      Tlv(IP_ADDRESS_TAG, Ip_v6),
      Tlv(IP_ADDRESS_TAG, Name_a_b_c),
      Tlv(RFC822_NAME_TAG, Name_a_b_c),
      Tlv(DIRECTORY_NAME_TAG, << >>),
      Tlv(CONTEXT_SPECIFIC + 9, Name_a_b_c) }

RECURSIVE Concat(_)
Concat(seqs) == IF seqs = << >> THEN << >> ELSE Head(seqs) \o Concat(Tail(seqs))

\* A subject with one attribute: SET { SEQUENCE { OID, UTF8String } }
SubjectDer(oid, value) ==
    Tlv(SET_TAG, Tlv(SEQUENCE_TAG, Tlv(OID_TAG, oid) \o Tlv(UTF8_STRING_TAG, value)))

\* Subjects: Common Name "a.b.c", Common Name 10.0.0.1, an organization name
\* and no Common Name, and one that does not parse
Subjects ==
    { SubjectDer(COMMON_NAME, Name_a_b_c),
      SubjectDer(COMMON_NAME, Ip_10_0_0_1),
      SubjectDer(<<85, 4, 10>>, Name_a_b_c),
      <<SET_TAG, 1, 5>> }

SubjectAltNames ==
    {None} \cup {Some(Concat(es)) : es \in SeqsUpTo(SanEntries, MaxSanEntries)}

DnsReferences == {Name_A_B_C, Name_d_b_c}

IpReferences == {Ip_10_0_0_1, Ip_v6}

InitName ==
    /\ SigIdle /\ ConformsIdle /\ ConstraintsIdle /\ IterIdle /\ FromDerIdle
    /\ cert \in [subject : Subjects \ {SubjectDer(<<85, 4, 10>>, Name_a_b_c)},
                 subject_alt_name : SubjectAltNames]
    /\ \/ /\ nv_op \in {"verify_cert_dns_name", "verify_cert_subject_name"}
          /\ subject_name \in [kind : {"DnsName"}, value : DnsReferences]
       \/ /\ nv_op = "verify_cert_subject_name"
          /\ subject_name \in [kind : {"IpAddress"}, value : IpReferences]
    /\ nv_pc = "entry"
    /\ nv_iter = NameIterator(None, None, None)
    /\ nv_yielded = << >>
    /\ nv_result = "pending"
    /\ names = << >>

NextName ==
    \/ VerifyCertDnsNameEntry
    \/ VerifyCertSubjectNameEntry
    \/ DnsNameFindMap
    \/ IpAddressFindMap

SpecName == InitName /\ [][NextName]_vars


----------------------------------------------------------------------------
\* The inputs of the name-constraint enforcement

\* The most GeneralSubtrees of a NameConstraints extension, both lists together
MaxSubtrees == 3

\* The most GeneralSubtrees of the extension applied to a chain
MaxChainSubtrees == 2

\* The most certificates from subordinate_certs to the end-entity certificate
MaxChain == 2

Name_b_c == <<98, 46, 99>>

Name_b_d == <<98, 46, 100>>

Name_a_b_d == <<97, 46, 98, 46, 100>>

Ip_11_0_0_1 == <<11, 0, 0, 1>>

\* 10.0.0.0/8: address || mask
Net_10 == <<10, 0, 0, 0, 255, 0, 0, 0>>

\* 10.0.0.0 with a mask whose one bits are not a prefix
Net_10_gap == <<10, 0, 0, 0, 255, 0, 255, 0>>

\* GeneralSubtree ::= SEQUENCE { base GeneralName }
Subtree(tag, value) == Tlv(SEQUENCE_TAG, Tlv(tag, value))

\* A GeneralSubtree that encodes minimum: SEQUENCE { base, [0] 0 }
SubtreeWithMinimum == Tlv(SEQUENCE_TAG, Tlv(DNS_NAME_TAG, Name_b_c) \o Tlv(CONTEXT_SPECIFIC, <<0>>))

SubtreeEntries ==
    { Subtree(DNS_NAME_TAG, Name_b_c),
      Subtree(DNS_NAME_TAG, Name_b_d),
      Subtree(IP_ADDRESS_TAG, Net_10),
      Subtree(IP_ADDRESS_TAG, Net_10_gap),
      Subtree(DIRECTORY_NAME_TAG, << >>),
      Subtree(UNIFORM_RESOURCE_IDENTIFIER_TAG, Name_b_c),
      Subtree(RFC822_NAME_TAG, Name_b_c),
      Subtree(OTHER_NAME_TAG, << >>),
      SubtreeWithMinimum }

\* The presented names, as GeneralName::from_der reads them
PresentedNames ==
    { GeneralName_from_der(Tlv(tag_value[1], tag_value[2])).name :
        tag_value \in { <<DNS_NAME_TAG, Name_a_b_c>>,
                        <<DNS_NAME_TAG, Name_a_b_d>>,
                        <<DNS_NAME_TAG, Name_a__c>>,
                        <<IP_ADDRESS_TAG, Ip_10_0_0_1>>,
                        <<IP_ADDRESS_TAG, Ip_11_0_0_1>>,
                        <<DIRECTORY_NAME_TAG, SubjectDer(COMMON_NAME, Name_a_b_c)>>,
                        <<UNIFORM_RESOURCE_IDENTIFIER_TAG, Name_a_b_c>>,
                        <<RFC822_NAME_TAG, Name_a_b_c>>,
                        <<RFC822_NAME_TAG, Name_b_c>>,
                        <<X400_ADDRESS_TAG, << >> >> } }

\* A list of n subtrees; the empty list is absent, or present and empty
SubtreeLists(entries, n) ==
    IF n = 0 THEN {None, Some(<< >>)}
    ELSE {Some(Concat(es)) : es \in [1..n -> entries]}

\* The pairs of lists with at most n subtrees together
SubtreePairs(entries, n) ==
    UNION { SubtreeLists(entries, k) \X SubtreeLists(entries, m) :
              <<k, m>> \in {km \in (0..n) \X (0..n) : km[1] + km[2] <= n} }

InitConforms ==
    /\ SigIdle /\ NameIdle /\ ConstraintsIdle /\ IterIdle /\ FromDerIdle
    /\ cf_name \in PresentedNames
    /\ \E pe \in SubtreePairs(SubtreeEntries, MaxSubtrees) :
           /\ cf_permitted_subtrees = pe[1]
           /\ cf_excluded_subtrees = pe[2]
    /\ cf_result = "pending"

NextConforms == ConformsCall

SpecConforms == InitConforms /\ [][NextConforms]_vars

\* A GeneralSubtree that encodes maximum: SEQUENCE { base, [1] 5 }
SubtreeWithMaximum ==
    Tlv(SEQUENCE_TAG, Tlv(DNS_NAME_TAG, Name_b_c) \o Tlv(CONTEXT_SPECIFIC + 1, <<5>>))

\* The subtrees of the extension applied to a chain
ChainSubtreeEntries ==
    { Subtree(DNS_NAME_TAG, Name_b_c),
      Subtree(DIRECTORY_NAME_TAG, << >>),
      Subtree(RFC822_NAME_TAG, Name_b_c),
      SubtreeWithMinimum,
      SubtreeWithMaximum }

\* NameConstraints ::= SEQUENCE { permittedSubtrees [0] OPTIONAL,
\*                               excludedSubtrees [1] OPTIONAL }, its contents
NameConstraintsDer(permitted, excluded) ==
    (IF IsSome(permitted)
     THEN Tlv(CONTEXT_SPECIFIC + CONSTRUCTED + 0, Unwrap(permitted)) ELSE << >>)
    \o (IF IsSome(excluded)
        THEN Tlv(CONTEXT_SPECIFIC + CONSTRUCTED + 1, Unwrap(excluded)) ELSE << >>)

\* The inputs: none, the encodings of two lists, and one whose
\* permittedSubtrees runs past the end
NameConstraintsInputs ==
    {None, Some(<<CONTEXT_SPECIFIC + CONSTRUCTED + 0, 4, SEQUENCE_TAG>>)}
    \cup { Some(NameConstraintsDer(pe[1], pe[2])) :
             pe \in SubtreePairs(ChainSubtreeEntries, MaxChainSubtrees) }

\* The certificates of a chain
ChainCerts ==
    [subject : {SubjectDer(COMMON_NAME, Name_a_b_c), SubjectDer(<<85, 4, 10>>, Name_a_b_d)},
     subject_alt_name : {None,
                         Some(Tlv(DNS_NAME_TAG, Name_a_b_d)),
                         Some(Tlv(RFC822_NAME_TAG, Name_a_b_c)
                              \o Tlv(DNS_NAME_TAG, Name_a_b_c)),
                         Some(Tlv(CONTEXT_SPECIFIC + 9, Name_a_b_c))}]

InitConstraints ==
    /\ SigIdle /\ NameIdle /\ ConformsIdle /\ IterIdle /\ FromDerIdle
    /\ nc_input \in NameConstraintsInputs
    /\ chain \in SeqsUpTo(ChainCerts, MaxChain) \ {<< >>}
    /\ subject_common_name_contents \in {"DnsName", "Ignore"}
    /\ permitted_subtrees = None
    /\ excluded_subtrees = None
    /\ child = 0
    /\ nc_result = "pending"

NextConstraints == CheckNameConstraintsEntry \/ CheckNameConstraintsLoop

SpecConstraints == InitConstraints /\ [][NextConstraints]_vars

\* An iterator made by NameIterator::new, with and without a subject, with
\* and without the Common Name
InitIter ==
    /\ SigIdle /\ NameIdle /\ ConformsIdle /\ ConstraintsIdle /\ FromDerIdle
    /\ it_subject \in {None} \cup {Some(s) : s \in Subjects}
    /\ it_subject_alt_name \in SubjectAltNames
    /\ it_contents \in {"Ignore", "DnsName"}
    /\ it_iter = NameIterator_new(it_subject, it_subject_alt_name, it_contents)
    /\ returned = << >>

NextIter == IterNext

SpecIter == InitIter /\ [][NextIter]_vars

\* The tag bytes
TagBytes == 0..255

\* GeneralName::from_der on one tag-length-value of every tag byte, alone,
\* followed by another byte, or cut short
InitFromDer ==
    /\ SigIdle /\ NameIdle /\ ConformsIdle /\ ConstraintsIdle /\ IterIdle
    /\ \E tag \in TagBytes, value \in {<< >>, Name_a_b_c} :
          gn_input \in {Tlv(tag, value), Tlv(tag, value) \o <<5>>,
                        <<tag, Len(value) + 1>> \o value}
    /\ gn_result = [ok |-> FALSE, name |-> NoName, err |-> "pending", rest |-> << >>]

NextFromDer == FromDer

SpecFromDer == InitFromDer /\ [][NextFromDer]_vars

\* list_cert_dns_names for every certificate of the name verification
InitList ==
    /\ SigIdle /\ ConformsIdle /\ ConstraintsIdle /\ IterIdle /\ FromDerIdle
    /\ cert \in [subject : Subjects, subject_alt_name : SubjectAltNames]
    /\ subject_name = [kind |-> "DnsName", value |-> << >>]
    /\ nv_op = "list_cert_dns_names"
    /\ nv_pc = "entry"
    /\ nv_iter = NameIterator(None, None, None)
    /\ nv_yielded = << >>
    /\ nv_result = "pending"
    /\ names = << >>

NextList == ListCertDnsNamesEntry \/ ListCertDnsNamesFindMap

SpecList == InitList /\ [][NextList]_vars

----------------------------------------------------------------------------
\* Properties of verify_signed_data

SigResults ==
    {"Ok", "BadDer", "UnsupportedSignatureAlgorithm",
     "UnsupportedSignatureAlgorithmForPublicKey", "InvalidSignatureForPublicKey"}

\* The parsed SubjectPublicKeyInfo of the call
ParsedSpki == SubjectPublicKeyInfo_from_der(spki_value)

\* Algorithm i has the signature algorithm identifier of the signed data.
SigIdEqual(i) ==
    supported_algorithms[i].signature_alg_id = signed_data.algorithm

\* Algorithm i has the algorithm identifier of the (well-formed) SPKI.
KeyIdEqual(i) ==
    /\ ParsedSpki.ok
    /\ supported_algorithms[i].public_key_alg_id = ParsedSpki.algorithm_id_value

\* Algorithm i's callback was invoked on the key bits of the SPKI, the signed
\* data and the signature, and accepts them.
AcceptedBy(i) ==
    /\ <<ParsedSpki.key_value, signed_data.data, signed_data.signature>>
           \in supported_algorithms[i].accepts
    /\ \E c \in 1..Len(sd_calls) :
           sd_calls[c] = [alg |-> supported_algorithms[i],
                          public_key |-> ParsedSpki.key_value,
                          message |-> signed_data.data,
                          signature |-> signed_data.signature]

\* C1: verify_signed_data returns Ok only if some supported algorithm has the
\* signature algorithm identifier of the signed data, byte for byte, and the
\* algorithm identifier parsed from the SPKI, byte for byte, and its callback
\* accepted (key bits of the SPKI, signed data, signature); on every other
\* input, a malformed SPKI included, it returns an error.
C1_OkOnlyIfMatchedAndAccepted ==
    sd_result # "pending" =>
        IF \E i \in 1..Len(supported_algorithms) :
               SigIdEqual(i) /\ KeyIdEqual(i) /\ AcceptedBy(i)
        THEN sd_result \in SigResults
        ELSE sd_result \in SigResults \ {"Ok"}

\* C1's case: Ok from the second algorithm of the list, the first having the
\* right signature algorithm but another key algorithm.
C1_Witness ==
    /\ sd_result = "Ok"
    /\ Len(supported_algorithms) = 2
    /\ SigIdEqual(1) /\ ~KeyIdEqual(1)
    /\ SigIdEqual(2) /\ KeyIdEqual(2)

\* C2: when no supported algorithm matches both the signature algorithm of
\* the signed data and the algorithm identifier of the SPKI (the loop runs to
\* its end: the SPKI parses, or no algorithm passes the filter), the result is
\* UnsupportedSignatureAlgorithmForPublicKey if some algorithm has the
\* signature algorithm identifier of the signed data, and
\* UnsupportedSignatureAlgorithm otherwise, the empty list included.
C2_ErrorWhenNoAlgorithmMatches ==
    (/\ sd_result # "pending"
     /\ ~\E i \in 1..Len(supported_algorithms) : SigIdEqual(i) /\ KeyIdEqual(i)
     /\ ParsedSpki.ok \/ ~\E i \in 1..Len(supported_algorithms) : SigIdEqual(i))
    => sd_result = IF \E i \in 1..Len(supported_algorithms) : SigIdEqual(i)
                   THEN "UnsupportedSignatureAlgorithmForPublicKey"
                   ELSE "UnsupportedSignatureAlgorithm"

\* C2's case: the second algorithm of two has the signature algorithm of the
\* signed data and not the key algorithm of the SPKI; the first has neither.
C2_Witness ==
    /\ sd_result = "UnsupportedSignatureAlgorithmForPublicKey"
    /\ Len(supported_algorithms) = 2
    /\ ~SigIdEqual(1) /\ SigIdEqual(2) /\ ParsedSpki.ok /\ ~KeyIdEqual(2)
    /\ sd_calls = << >>

\* C2's other case: an empty list of algorithms.
C2_WitnessEmpty ==
    /\ sd_result = "UnsupportedSignatureAlgorithm"
    /\ supported_algorithms = << >>

----------------------------------------------------------------------------
\* Properties of the name verification

RECURSIVE ReadNames(_)
\* The general names encoded in a subjectAltName, in encoded order, up to and
\* including the first that does not parse
ReadNames(reader) ==
    IF at_end(reader) THEN << >>
    ELSE LET g == GeneralName_from_der(reader)
         IN IF g.ok THEN <<OkItem(g.name)>> \o ReadNames(g.rest)
            ELSE <<ErrItem(g.err)>>

\* The entries of the certificate's subjectAltName
SanItems ==
    IF IsSome(cert.subject_alt_name) THEN ReadNames(Unwrap(cert.subject_alt_name))
    ELSE << >>

\* Entries 1..n of the subjectAltName all parse.
ParsesUpTo(n) == \A j \in 1..n : j <= Len(SanItems) => SanItems[j].ok

\* Entry i is a DnsName that presented-vs-reference matching accepts.
DnsEntryMatches(i) ==
    /\ SanItems[i].ok
    /\ SanItems[i].name.kind = "DnsName"
    /\ dns_presented_id_matches_reference_id(SanItems[i].name.value,
                                             subject_name.value) = "true"

\* Entry i is an IpAddress with the octets of the reference.
IpEntryEqual(i) ==
    /\ SanItems[i].ok
    /\ SanItems[i].name.kind = "IpAddress"
    /\ SanItems[i].name.value = subject_name.value

\* The call has returned.
NameDone == nv_result \notin {"pending", "idle"}

\* The scan took the entries of the subjectAltName in encoded order.
ScannedInOrder ==
    \A k \in 1..Len(nv_yielded) : k <= Len(SanItems) => nv_yielded[k] = SanItems[k]

\* C3: verify_cert_dns_name scans the certificate's names in encoded order and
\* looks at DnsName entries only; it returns Ok at the first entry that
\* presented-vs-reference matching accepts, and CertNotValidForName when no
\* entry matches (every entry then parses and was scanned); entries of other
\* forms, and DnsName entries for which matching says false or
\* MalformedDnsIdentifier, are skipped and do not end the scan.
C3_DnsFirstMatchDecides ==
    (NameDone /\ nv_pc = "dns") =>
        /\ ScannedInOrder
        /\ nv_result = "Ok" <=>
               \E i \in 1..Len(SanItems) : DnsEntryMatches(i) /\ ParsesUpTo(i)
        /\ nv_result = "Ok" =>
               /\ Len(nv_yielded) \in 1..Len(SanItems)
               /\ DnsEntryMatches(Len(nv_yielded))
               /\ \A j \in 1..(Len(nv_yielded) - 1) : ~DnsEntryMatches(j)
        /\ (ParsesUpTo(Len(SanItems))
              /\ ~\E i \in 1..Len(SanItems) : DnsEntryMatches(i)) =>
               /\ nv_result = "CertNotValidForName"
               /\ Len(nv_yielded) = Len(SanItems) + 1

\* C3's case: Ok at the second entry, after a DnsName that is a malformed
\* identifier was skipped.
C3_Witness ==
    /\ nv_pc = "dns"
    /\ nv_result = "Ok"
    /\ Len(nv_yielded) = 2
    /\ nv_yielded[1].ok
    /\ nv_yielded[1].name.kind = "DnsName"
    /\ dns_presented_id_matches_reference_id(nv_yielded[1].name.value,
                                             subject_name.value)
           = "MalformedDnsIdentifier"

\* The subject's Common Name, when the subject parses and has one
SubjectCommonName == common_name(cert.subject).cn

\* C4: for a certificate with no subjectAltName, or an empty one,
\* verify_cert_dns_name and verify_cert_subject_name return
\* CertNotValidForName for every reference name, whatever the subject holds
\* (a Common Name equal to the reference name included): no parse error, no Ok.
C4_SubjectNeverMatched ==
    (/\ NameDone
     /\ cert.subject_alt_name = None \/ cert.subject_alt_name = Some(<< >>))
    => nv_result = "CertNotValidForName"

\* C4's case: an empty subjectAltName, and a subject whose Common Name is
\* accepted by matching against the reference name.
C4_Witness ==
    /\ NameDone
    /\ cert.subject_alt_name = Some(<< >>)
    /\ IsSome(SubjectCommonName)
    /\ subject_name.kind = "DnsName"
    /\ dns_presented_id_matches_reference_id(Unwrap(SubjectCommonName),
                                             subject_name.value) = "true"

\* C4's case for an IP address: no subjectAltName, and a Common Name that is
\* the octets of the reference.
C4_WitnessIp ==
    /\ NameDone
    /\ cert.subject_alt_name = None
    /\ subject_name.kind = "IpAddress"
    /\ SubjectCommonName = Some(subject_name.value)

\* C5: for an IP reference, verify_cert_subject_name iterates the entries of
\* the subjectAltName only (the subject is never yielded), compares the octets
\* of the reference with IpAddress entries only, returns Ok at the first equal
\* entry and CertNotValidForName if there is none (every entry then parses);
\* a DnsName entry never satisfies an IP reference.  A DNS reference goes to
\* verify_cert_dns_name, where Ok comes from a DnsName entry, never from an
\* IpAddress entry.
C5_IpReferenceSanOnly ==
    /\ (nv_op = "verify_cert_subject_name" /\ subject_name.kind = "IpAddress") =>
           /\ nv_pc \in {"entry", "ip"}
           /\ ScannedInOrder
           /\ Len(nv_yielded) <= Len(SanItems)
           /\ NameDone =>
                  /\ nv_result = "Ok" <=>
                         \E i \in 1..Len(SanItems) : IpEntryEqual(i) /\ ParsesUpTo(i)
                  /\ nv_result = "Ok" =>
                         /\ Len(nv_yielded) >= 1
                         /\ IpEntryEqual(Len(nv_yielded))
                         /\ \A j \in 1..(Len(nv_yielded) - 1) : ~IpEntryEqual(j)
                  /\ (ParsesUpTo(Len(SanItems))
                        /\ ~\E i \in 1..Len(SanItems) : IpEntryEqual(i)) =>
                         nv_result = "CertNotValidForName"
    /\ (nv_op = "verify_cert_subject_name" /\ subject_name.kind = "DnsName") =>
           /\ nv_pc \in {"entry", "dns"}
           /\ nv_result = "Ok" =>
                  nv_yielded[Len(nv_yielded)].name.kind = "DnsName"

\* C5's case: Ok at the second entry for an IP reference, the first entry
\* being a DnsName whose bytes are the octets of the reference.
C5_Witness ==
    /\ nv_pc = "ip"
    /\ nv_result = "Ok"
    /\ Len(nv_yielded) = 2
    /\ nv_yielded[1] = OkItem(DnsName(subject_name.value))

\* C5's case for a DNS reference: CertNotValidForName from
\* verify_cert_subject_name although an IpAddress entry holds the bytes of the
\* reference name.
C5_WitnessDns ==
    /\ nv_op = "verify_cert_subject_name"
    /\ nv_pc = "dns"
    /\ nv_result = "CertNotValidForName"
    /\ \E k \in 1..Len(nv_yielded) :
           /\ nv_yielded[k].name.kind = "IpAddress"
           /\ LowerAll(nv_yielded[k].name.value) = LowerAll(subject_name.value)

----------------------------------------------------------------------------
\* Properties of check_presented_id_conforms_to_constraints

RECURSIVE SubtreeBases(_)
\* What general_subtree reads from a list of subtrees, entry by entry, up to
\* and including the first entry it rejects
SubtreeBases(constraints) ==
    IF at_end(constraints) THEN << >>
    ELSE Let(general_subtree(constraints), LAMBDA base :
             IF base.ok THEN <<base>> \o SubtreeBases(base.rest) ELSE <<base>>)

\* The entries of an optional list
ListBases(list) == IF IsSome(list) THEN SubtreeBases(Unwrap(list)) ELSE << >>

\* The name and the base have the same general-name form (for the forms
\* without a decoder: the same tag number).
SameType(name, base) ==
    /\ name.kind = base.kind
    /\ name.kind = "Unsupported" => name.tag = base.tag

\* What the matcher of the form says of the name and a base of the same form
\* that has one (dNSName, iPAddress); "" for a form without a matcher
MatcherSays(name, base) ==
    IF name.kind = "DnsName" /\ base.kind = "DnsName"
    THEN dns_presented_id_matches_constraint(name.value, base.value)
    ELSE IF name.kind = "IpAddress" /\ base.kind = "IpAddress"
    THEN ip_presented_id_matches_constraint(name.value, base.value)
    ELSE ""

\* Every entry of the list is read, and no matcher rejects the name or a base
\* as malformed.
ReadsCleanly(name, list) ==
    \A i \in 1..Len(ListBases(list)) :
        /\ ListBases(list)[i].ok
        /\ MatcherSays(name, ListBases(list)[i].name) \in {"", "true", "false"}

\* Entry i of excludedSubtrees is of the form of the name and matches it: by
\* its matcher, or being a directoryName, all of which match.
ExcludedEntryMatches(name, list, i) ==
    /\ ListBases(list)[i].ok
    /\ \/ MatcherSays(name, ListBases(list)[i].name) = "true"
       \/ name.kind = "DirectoryName" /\ ListBases(list)[i].name.kind = "DirectoryName"

\* Entry i of permittedSubtrees is of the form of the name and matches it, by
\* its matcher; no directoryName matches.
PermittedEntryMatches(name, list, i) ==
    /\ ListBases(list)[i].ok
    /\ MatcherSays(name, ListBases(list)[i].name) = "true"

\* Entry i of the list is of the form of the name.
EntrySameType(name, list, i) ==
    /\ ListBases(list)[i].ok
    /\ SameType(name, ListBases(list)[i].name)

\* C6: a presented name that an entry of excludedSubtrees of its form matches
\* is never reported as conforming, whether or not an entry of
\* permittedSubtrees matches it too; the error is NameConstraintViolation
\* when both lists are read without a malformed entry, name or mask.  (The
\* forms with a matcher are dNSName and iPAddress; a directoryName matches
\* every excluded directoryName.)
C6_ExcludedMatchRejects ==
    (/\ cf_result # "pending"
     /\ \E i \in 1..Len(ListBases(cf_excluded_subtrees)) :
            ExcludedEntryMatches(cf_name, cf_excluded_subtrees, i)) =>
        /\ cf_result # "None"
        /\ (ReadsCleanly(cf_name, cf_permitted_subtrees)
              /\ ReadsCleanly(cf_name, cf_excluded_subtrees)) =>
               cf_result = "NameConstraintViolation"

\* C6's case: NameConstraintViolation for a dNSName that an entry of
\* permittedSubtrees and an entry of excludedSubtrees both match.
C6_Witness ==
    /\ cf_result = "NameConstraintViolation"
    /\ cf_name.kind = "DnsName"
    /\ ReadsCleanly(cf_name, cf_permitted_subtrees)
    /\ \E i \in 1..Len(ListBases(cf_permitted_subtrees)) :
           PermittedEntryMatches(cf_name, cf_permitted_subtrees, i)
    /\ \E i \in 1..Len(ListBases(cf_excluded_subtrees)) :
           ExcludedEntryMatches(cf_name, cf_excluded_subtrees, i)

\* C6's case for an iPAddress that only excludedSubtrees names.
C6_WitnessIp ==
    /\ cf_result = "NameConstraintViolation"
    /\ cf_name.kind = "IpAddress"
    /\ cf_permitted_subtrees = None
    /\ \E i \in 1..Len(ListBases(cf_excluded_subtrees)) :
           ExcludedEntryMatches(cf_name, cf_excluded_subtrees, i)

\* C7: with both lists read cleanly and nothing excluded, a name is conforming
\* if permittedSubtrees has no entry of its form, and otherwise only if an
\* entry of its form matches it; with entries of its form and none matching
\* the result is NameConstraintViolation.
C7_PermittedSameTypeRequiresMatch ==
    (/\ cf_result # "pending"
     /\ ~IsSome(cf_excluded_subtrees)
     /\ ReadsCleanly(cf_name, cf_permitted_subtrees)) =>
        IF \E i \in 1..Len(ListBases(cf_permitted_subtrees)) :
               EntrySameType(cf_name, cf_permitted_subtrees, i)
        THEN IF \E i \in 1..Len(ListBases(cf_permitted_subtrees)) :
                    PermittedEntryMatches(cf_name, cf_permitted_subtrees, i)
             THEN cf_result = "None"
             ELSE cf_result = "NameConstraintViolation"
        ELSE cf_result = "None"

\* The same statement for the forms the function decodes or counts as
\* unsupported: every form but uniformResourceIdentifier.
C7_ExceptUniformResourceIdentifier ==
    cf_name.kind # "UniformResourceIdentifier" => C7_PermittedSameTypeRequiresMatch

\* The case where the code departs from C7: a uniformResourceIdentifier is
\* conforming although permittedSubtrees has an entry of that form.
C7_UriConforming ==
    /\ cf_result = "None"
    /\ cf_name.kind = "UniformResourceIdentifier"
    /\ ~IsSome(cf_excluded_subtrees)
    /\ ReadsCleanly(cf_name, cf_permitted_subtrees)
    /\ \E i \in 1..Len(ListBases(cf_permitted_subtrees)) :
           EntrySameType(cf_name, cf_permitted_subtrees, i)

\* C9: for a name of an unsupported form with tag number T, when both lists
\* are read to their ends, the result is NameConstraintViolation if an entry
\* of an unsupported form with the same tag number T is in permittedSubtrees
\* or excludedSubtrees, whatever the values hold, and conforming otherwise:
\* entries of other tag numbers and forms do not affect it.
C9_UnsupportedSameTagRejects ==
    (/\ cf_result # "pending"
     /\ cf_name.kind = "Unsupported"
     /\ ReadsCleanly(cf_name, cf_permitted_subtrees)
     /\ ReadsCleanly(cf_name, cf_excluded_subtrees)) =>
        IF \/ \E i \in 1..Len(ListBases(cf_permitted_subtrees)) :
                  EntrySameType(cf_name, cf_permitted_subtrees, i)
           \/ \E i \in 1..Len(ListBases(cf_excluded_subtrees)) :
                  EntrySameType(cf_name, cf_excluded_subtrees, i)
        THEN cf_result = "NameConstraintViolation"
        ELSE cf_result = "None"

\* C9's case: NameConstraintViolation for an rfc822Name because
\* permittedSubtrees, and nothing else, holds an rfc822Name.
C9_Witness ==
    /\ cf_result = "NameConstraintViolation"
    /\ cf_name.kind = "Unsupported"
    /\ ~IsSome(cf_excluded_subtrees)
    /\ Len(ListBases(cf_permitted_subtrees)) >= 1
    /\ \A i \in 1..Len(ListBases(cf_permitted_subtrees)) :
           EntrySameType(cf_name, cf_permitted_subtrees, i)

\* C9's case for another tag number: a name of an unsupported form conforms
\* to lists that hold an unsupported form of another tag number.
C9_WitnessOtherTag ==
    /\ cf_result = "None"
    /\ cf_name.kind = "Unsupported"
    /\ \E i \in 1..Len(ListBases(cf_excluded_subtrees)) :
           /\ ListBases(cf_excluded_subtrees)[i].ok
           /\ ListBases(cf_excluded_subtrees)[i].name.kind = "Unsupported"
           /\ ListBases(cf_excluded_subtrees)[i].name.tag # cf_name.tag

----------------------------------------------------------------------------
\* Properties of check_name_constraints

NcErrors == {"BadDer", "MalformedDnsIdentifier", "InvalidNetworkMaskConstraint",
             "NameConstraintViolation"}

\* The two lists as parse_subtrees reads them from the input
InputPermitted == parse_subtrees(Unwrap(nc_input), CONTEXT_SPECIFIC + CONSTRUCTED + 0)

InputExcluded == parse_subtrees(InputPermitted.rest, CONTEXT_SPECIFIC + CONSTRUCTED + 1)

\* Both lists are read from the input.
InputParses == IsSome(nc_input) /\ InputPermitted.ok /\ InputExcluded.ok

\* The list holds a directoryName entry.
HasDirectoryName(list) ==
    \E i \in 1..Len(ListBases(list)) :
        ListBases(list)[i].ok /\ ListBases(list)[i].name.kind = "DirectoryName"

\* The names of one certificate: the entries of subjectAltName up to the first
\* that is not read; when all are read, the subject as a DirectoryName and,
\* if the caller asked for it, its Common Name as a DnsName
CertNames(c) ==
    Let(IF IsSome(c.subject_alt_name) THEN ReadNames(Unwrap(c.subject_alt_name))
        ELSE << >>, LAMBDA san :
        IF \E i \in 1..Len(san) : ~san[i].ok THEN san
        ELSE san \o <<OkItem(DirectoryName(c.subject))>>
                 \o (IF subject_common_name_contents # "DnsName" THEN << >>
                     ELSE Let(common_name(c.subject), LAMBDA cn :
                              IF cn.err # "" THEN <<ErrItem(cn.err)>>
                              ELSE IF IsSome(cn.cn) THEN <<OkItem(DnsName(Unwrap(cn.cn)))>>
                              ELSE << >>)))

\* Every name of the certificate is read and conforms to the two lists.
CertConforms(c) ==
    \A i \in 1..Len(CertNames(c)) :
        /\ CertNames(c)[i].ok
        /\ check_presented_id_conforms_to_constraints(
               CertNames(c)[i].name, InputPermitted.subtrees, InputExcluded.subtrees) = "None"

\* The call has returned.
ConstraintsDone == nc_result \notin {"pending", "idle"}

\* C8: when permittedSubtrees or excludedSubtrees holds a directoryName,
\* check_name_constraints returns an error for every chain; the error is
\* NameConstraintViolation unless a subtree or a name is not read (BadDer,
\* MalformedDnsIdentifier, InvalidNetworkMaskConstraint), and it is
\* NameConstraintViolation when the first certificate has no subjectAltName
\* and the lists are read to the end for its subject.
C8_DirectoryNameConstraintRejects ==
    (/\ ConstraintsDone
     /\ InputParses
     /\ \/ HasDirectoryName(InputPermitted.subtrees)
        \/ HasDirectoryName(InputExcluded.subtrees)) =>
        /\ nc_result \in NcErrors
        /\ (/\ ~IsSome(chain[1].subject_alt_name)
            /\ ReadsCleanly(DirectoryName(chain[1].subject), InputPermitted.subtrees)
            /\ ReadsCleanly(DirectoryName(chain[1].subject), InputExcluded.subtrees)) =>
               nc_result = "NameConstraintViolation"

\* C8's case: NameConstraintViolation for a chain of two certificates whose
\* only constraint is a permitted directoryName.
C8_Witness ==
    /\ nc_result = "NameConstraintViolation"
    /\ Len(chain) = 2
    /\ InputParses
    /\ ~IsSome(InputExcluded.subtrees)
    /\ Len(ListBases(InputPermitted.subtrees)) = 1
    /\ HasDirectoryName(InputPermitted.subtrees)

\* C8's case for excludedSubtrees.
C8_WitnessExcluded ==
    /\ nc_result = "NameConstraintViolation"
    /\ InputParses
    /\ ~IsSome(InputPermitted.subtrees)
    /\ Len(ListBases(InputExcluded.subtrees)) = 1
    /\ HasDirectoryName(InputExcluded.subtrees)

\* C10: with no input check_name_constraints returns Ok for every chain; with
\* an input whose lists are read, it returns Ok exactly when every name of
\* every certificate from subordinate_certs to the end-entity certificate is
\* read and conforms (each subjectAltName entry and the subject, and the
\* Common Name when the caller asked for it), and an error otherwise.
C10_EveryNameOfEveryCert ==
    ConstraintsDone =>
        IF ~IsSome(nc_input) THEN nc_result = "Ok"
        ELSE IF ~InputParses THEN nc_result = "BadDer"
        ELSE IF \A k \in 1..Len(chain) : CertConforms(chain[k])
        THEN nc_result = "Ok"
        ELSE nc_result \in NcErrors

\* C10's case: an error that comes from the second certificate of the chain,
\* the first conforming.
C10_Witness ==
    /\ nc_result = "NameConstraintViolation"
    /\ InputParses
    /\ Len(chain) = 2
    /\ child = 2
    /\ CertConforms(chain[1])
    /\ ~CertConforms(chain[2])

\* C10's case for Ok: two certificates with a subjectAltName each conform to
\* a list that is not empty.
C10_WitnessOk ==
    /\ nc_result = "Ok"
    /\ InputParses
    /\ Len(ListBases(InputPermitted.subtrees)) + Len(ListBases(InputExcluded.subtrees)) >= 1
    /\ Len(chain) = 2
    /\ \A k \in 1..2 : IsSome(chain[k].subject_alt_name)

\* C10's case for no input: Ok for a chain of two certificates.
C10_WitnessNoInput ==
    /\ nc_result = "Ok"
    /\ ~IsSome(nc_input)
    /\ Len(chain) = 2

----------------------------------------------------------------------------
\* Properties of verify_signed_data: order, callback, SubjectPublicKeyInfo

\* The call has returned.
SigDone == sd_result \notin {"pending", "idle"}

\* The lists that hold the algorithms of `algs` in another order
Permutations(algs) ==
    { [i \in 1..Len(algs) |-> algs[p[i]]] :
        p \in {q \in [1..Len(algs) -> 1..Len(algs)] :
                  \A i, j \in 1..Len(algs) : q[i] = q[j] => i = j} }

\* What the call returned is what verify_signed_data, as a function, returns
\* for its arguments.
SigResultIsFunction ==
    SigDone => sd_result = verify_signed_data(supported_algorithms, spki_value, signed_data)

\* C11: for the same spki_value and signed_data, verify_signed_data returns
\* for every permutation of supported_algorithms what it returned for the
\* list itself.
C11_OrderDoesNotMatter ==
    SigDone =>
        \A algs \in Permutations(supported_algorithms) :
            verify_signed_data(algs, spki_value, signed_data) = sd_result

\* The same statement for lists in which no two algorithms have both
\* identifiers in common.
C11_DistinctIdentifierPairs ==
    (\A i, j \in 1..Len(supported_algorithms) :
         (/\ supported_algorithms[i].signature_alg_id
                = supported_algorithms[j].signature_alg_id
          /\ supported_algorithms[i].public_key_alg_id
                = supported_algorithms[j].public_key_alg_id) => i = j)
        => C11_OrderDoesNotMatter

\* The case where the code departs from C11: Ok for a list whose reverse
\* gives InvalidSignatureForPublicKey.
C11_OrderMatters ==
    /\ sd_result = "Ok"
    /\ Len(supported_algorithms) = 2
    /\ verify_signed_data(<<supported_algorithms[2], supported_algorithms[1]>>,
                          spki_value, signed_data) = "InvalidSignatureForPublicKey"

----------------------------------------------------------------------------
\* Properties of check_name_constraints: malformed subtrees

RECURSIVE TlvsOf(_)
\* The tag-length-values of a byte string, up to and including the first that
\* is not read
TlvsOf(bytes) ==
    IF at_end(bytes) THEN << >>
    ELSE Let(read_tag_and_get_value(bytes), LAMBDA tlv :
             IF tlv.ok THEN <<tlv>> \o TlvsOf(tlv.rest) ELSE <<tlv>>)

\* The tag bytes of the GeneralName CHOICE
GeneralNameTags ==
    {OTHER_NAME_TAG, RFC822_NAME_TAG, DNS_NAME_TAG, X400_ADDRESS_TAG,
     DIRECTORY_NAME_TAG, EDI_PARTY_NAME_TAG, UNIFORM_RESOURCE_IDENTIFIER_TAG,
     IP_ADDRESS_TAG, REGISTERED_ID_TAG}

\* The tag-length-value is a SEQUENCE holding one GeneralName and nothing else.
ExactlyOneGeneralName(tlv) ==
    /\ tlv.ok
    /\ tlv.tag = SEQUENCE_TAG
    /\ Len(TlvsOf(tlv.value)) = 1
    /\ TlvsOf(tlv.value)[1].ok
    /\ TlvsOf(tlv.value)[1].tag \in GeneralNameTags

\* An entry of the list is not a SEQUENCE holding exactly one GeneralName.
HasMalformedSubtree(list) ==
    /\ IsSome(list)
    /\ \E i \in 1..Len(TlvsOf(Unwrap(list))) :
           ~ExactlyOneGeneralName(TlvsOf(Unwrap(list))[i])

\* C12: when a GeneralSubtree of permittedSubtrees or excludedSubtrees is not
\* a SEQUENCE holding exactly one GeneralName (it encodes minimum or maximum,
\* say), check_name_constraints returns an error for every chain, wherever
\* the subtree stands in its list and whatever the other subtrees match.
C12_MalformedSubtreeRejects ==
    (/\ ConstraintsDone
     /\ InputParses
     /\ \/ HasMalformedSubtree(InputPermitted.subtrees)
        \/ HasMalformedSubtree(InputExcluded.subtrees)) =>
        nc_result \in NcErrors

\* C12's case: BadDer for a chain whose first certificate has a dNSName that
\* the first permitted subtree matches, the second subtree encoding minimum
\* or maximum.
C12_Witness ==
    /\ nc_result = "BadDer"
    /\ InputParses
    /\ ~IsSome(InputExcluded.subtrees)
    /\ Len(ListBases(InputPermitted.subtrees)) = 2
    /\ PermittedEntryMatches(DnsName(Name_a_b_c), InputPermitted.subtrees, 1)
    /\ ~ListBases(InputPermitted.subtrees)[2].ok
    /\ chain[1].subject_alt_name = Some(Tlv(RFC822_NAME_TAG, Name_a_b_c)
                                         \o Tlv(DNS_NAME_TAG, Name_a_b_c))

\* C12's case for excludedSubtrees: an error although nothing is permitted or
\* excluded but the malformed subtree.
C12_WitnessExcluded ==
    /\ nc_result = "BadDer"
    /\ InputParses
    /\ ~IsSome(InputPermitted.subtrees)
    /\ Len(ListBases(InputExcluded.subtrees)) = 1
    /\ HasMalformedSubtree(InputExcluded.subtrees)
    /\ ~IsSome(chain[1].subject_alt_name)

----------------------------------------------------------------------------
\* Properties of list_cert_dns_names

\* The values of the dNSName entries of subjectAltName that are DNS names or
\* wildcard names, in encoded order
SanDnsNames ==
    LET kept == SelectSeq(SanItems, LAMBDA item :
                    item.ok /\ item.name.kind = "DnsName"
                    /\ ValidPresentedId(item.name.value))
    IN [i \in 1..Len(kept) |-> kept[i].name.value]

\* C13: verify_cert_dns_name, verify_cert_subject_name and list_cert_dns_names
\* iterate with the Common Name ignored, so that the names
\* list_cert_dns_names returns are dNSName entries of subjectAltName, none
\* made from the Common Name.
C13_CommonNameOnlyForConstraints ==
    /\ (nv_op \in {"verify_cert_dns_name", "verify_cert_subject_name",
                    "list_cert_dns_names"}
          /\ nv_pc # "entry") => ~IsSome(nv_iter.subject_common_name)
    /\ (nv_op = "list_cert_dns_names" /\ nv_result = "Ok") => names = SanDnsNames

\* What list_cert_dns_names does return: the dNSName entries of
\* subjectAltName, and after them the Common Name of the subject when it has
\* one that is a DNS name or a wildcard name.
C13_ListReturnsSanThenCommonName ==
    (nv_op = "list_cert_dns_names" /\ nv_result = "Ok") =>
        names = SanDnsNames
                  \o (IF common_name(cert.subject).err = ""
                         /\ IsSome(common_name(cert.subject).cn)
                         /\ ValidPresentedId(Unwrap(common_name(cert.subject).cn))
                      THEN common_name(cert.subject).cn ELSE << >>)

\* The case where the code departs from C13: list_cert_dns_names returns the
\* Common Name of a certificate without subjectAltName.
C13_CommonNameListed ==
    /\ nv_op = "list_cert_dns_names"
    /\ nv_result = "Ok"
    /\ ~IsSome(cert.subject_alt_name)
    /\ names = <<Name_a_b_c>>

----------------------------------------------------------------------------
\* The algorithm that decides verify_signed_data

\* The positions of the algorithms equal to the signed data on the signature
\* identifier and to the key on the key identifier
BothMatch ==
    {i \in 1..Len(supported_algorithms) :
        /\ supported_algorithms[i].signature_alg_id = signed_data.algorithm
        /\ supported_algorithms[i].public_key_alg_id
             = SubjectPublicKeyInfo_from_der(spki_value).algorithm_id_value}

FirstBothMatch == CHOOSE i \in BothMatch : \A j \in BothMatch : i <= j

\* The one invocation of the callback of the algorithm at position i
CallOf(i) ==
    [alg |-> supported_algorithms[i],
     public_key |-> SubjectPublicKeyInfo_from_der(spki_value).key_value,
     message |-> signed_data.data, signature |-> signed_data.signature]

C14_WitnessPassedOver ==
    /\ SigDone
    /\ sd_result = "Ok"
    /\ BothMatch # {}
    /\ FirstBothMatch > 1
    /\ supported_algorithms[1].signature_alg_id = signed_data.algorithm

----------------------------------------------------------------------------
\* Properties of NameIterator

\* The entries of the iterator's subjectAltName, up to and including the first
\* that does not parse
ItSanItems ==
    IF IsSome(it_subject_alt_name) THEN ReadNames(Unwrap(it_subject_alt_name))
    ELSE << >>

\* The Common Name is asked for and there is a subject to take it from.
ItCommonNameAsked == IsSome(it_subject) /\ it_contents = "DnsName"

\* Well-formed input: every subjectAltName entry parses, and so does the
\* subject when the Common Name is taken from it.
ItWellFormed ==
    /\ \A i \in 1..Len(ItSanItems) : ItSanItems[i].ok
    /\ ItCommonNameAsked => common_name(Unwrap(it_subject)).err = ""

\* For well-formed input: the subjectAltName entries, the subject, the
\* Common Name
ItExpected ==
    ItSanItems
      \o (IF IsSome(it_subject) THEN <<OkItem(DirectoryName(Unwrap(it_subject)))>>
          ELSE << >>)
      \o (IF ItCommonNameAsked /\ IsSome(common_name(Unwrap(it_subject)).cn)
          THEN <<OkItem(DnsName(Unwrap(common_name(Unwrap(it_subject)).cn)))>>
          ELSE << >>)

\* What an iterator has left to do: the subjectAltName entries not yet read
\* and the fields not yet cleared
Remaining(iter) ==
    (IF IsSome(iter.subject_alt_name)
     THEN Len(TlvsOf(Unwrap(iter.subject_alt_name))) ELSE 0)
      + (IF IsSome(iter.subject_directory_name) THEN 1 ELSE 0)
      + (IF IsSome(iter.subject_common_name) THEN 1 ELSE 0)

\* The calls of next() that returned an item
ReturnedItems == {i \in 1..Len(returned) : IsSome(returned[i])}

\* C15: for well-formed input the calls of next() return every
\* subjectAltName entry in encoded order, then the subject as a
\* DirectoryName if there is one, then the Common Name as a DnsName if it was
\* asked for and the subject has one, then None at every later call; every
\* item returned takes one from what the iterator has left to do.
C15_OrderThenNoneForever ==
    /\ ItWellFormed =>
          \A i \in 1..Len(returned) :
              returned[i] = IF i <= Len(ItExpected) THEN Some(ItExpected[i]) ELSE None
    /\ Cardinality(ReturnedItems) + Remaining(it_iter)
          <= Remaining(NameIterator_new(it_subject, it_subject_alt_name, it_contents))

\* Two subjectAltName entries, the subject, its Common Name, and None twice
C15_Witness ==
    /\ ItWellFormed
    /\ Len(ItSanItems) = 2
    /\ Len(ItExpected) = 4
    /\ Len(returned) >= 6
    /\ returned[5] = None /\ returned[6] = None

\* The Common Name was not asked for: the subject is the last item.
C15_WitnessIgnore ==
    /\ ItWellFormed
    /\ it_contents = "Ignore"
    /\ it_subject = Some(SubjectDer(COMMON_NAME, Name_a_b_c))
    /\ Len(returned) >= Len(ItExpected) + 2

\* The position of the first subjectAltName entry that is no general name, 0
\* when there is none
FirstBadSanEntry ==
    IF ~IsSome(it_subject_alt_name) THEN 0
    ELSE Let(TlvsOf(Unwrap(it_subject_alt_name)), LAMBDA tlvs :
             IF \E i \in 1..Len(tlvs) : ~tlvs[i].ok \/ tlvs[i].tag \notin GeneralNameTags
             THEN CHOOSE i \in 1..Len(tlvs) :
                      /\ ~tlvs[i].ok \/ tlvs[i].tag \notin GeneralNameTags
                      /\ \A j \in 1..(i - 1) :
                            tlvs[j].ok /\ tlvs[j].tag \in GeneralNameTags
             ELSE 0)

\* The position of the call that returns the error of the Common Name, 0
\* when there is none
CommonNameErrPosition ==
    IF FirstBadSanEntry = 0 /\ ItCommonNameAsked
       /\ common_name(Unwrap(it_subject)).err # ""
    THEN Len(ItSanItems) + 2 ELSE 0

\* The calls of next() that returned an Err
ReturnedErrs == {i \in ReturnedItems : ~Unwrap(returned[i]).ok}

\* C16: an iterator returns at most one Err, at the entry of subjectAltName
\* that does not parse or at the Common Name that cannot be extracted, and
\* None at every call after it: after an error in subjectAltName neither
\* another entry, nor the subject, nor the Common Name.
C16_OneErrThenNone ==
    /\ Cardinality(ReturnedErrs) <= 1
    /\ \A i \in ReturnedErrs : \A j \in (i + 1)..Len(returned) : returned[j] = None
    /\ \A i \in ReturnedErrs : i \in {FirstBadSanEntry, CommonNameErrPosition}
    /\ \A i \in {FirstBadSanEntry, CommonNameErrPosition} \ {0} :
          Len(returned) >= i =>
              /\ ReturnedErrs = {i}
              /\ \A j \in 1..(i - 1) : IsSome(returned[j]) /\ Unwrap(returned[j]).ok

\* The first of two subjectAltName entries does not parse, of an iterator
\* with a subject and its Common Name: one Err, then None.
C16_Witness ==
    /\ FirstBadSanEntry = 1
    /\ Len(Unwrap(it_subject_alt_name)) > Len(Tlv(CONTEXT_SPECIFIC + 9, Name_a_b_c))
    /\ it_subject = Some(SubjectDer(COMMON_NAME, Name_a_b_c))
    /\ it_contents = "DnsName"
    /\ Len(returned) >= 3
    /\ returned[2] = None /\ returned[3] = None

\* The subject does not parse when the Common Name is taken from it.
C16_WitnessCommonName ==
    /\ CommonNameErrPosition # 0
    /\ Len(returned) > CommonNameErrPosition
    /\ returned[CommonNameErrPosition] = Some(ErrItem("BadDer"))

----------------------------------------------------------------------------
\* Properties of GeneralName::from_der

\* from_der has returned.
FromDerDone == gn_result.err \notin {"idle", "pending"}

\* The input starts with a tag-length-value that can be read.
GnReads == read_tag_and_get_value(gn_input).ok

GnTag == read_tag_and_get_value(gn_input).tag

GnValue == read_tag_and_get_value(gn_input).value

\* The four forms from_der keeps the value of
GnRecognized ==
    CASE GnTag = CONTEXT_SPECIFIC + 2 -> DnsName(GnValue)
      [] GnTag = CONTEXT_SPECIFIC + CONSTRUCTED + 4 -> DirectoryName(GnValue)
      [] GnTag = CONTEXT_SPECIFIC + 6 -> UniformResourceIdentifier(GnValue)
      [] GnTag = CONTEXT_SPECIFIC + 7 -> IpAddress(GnValue)
      [] OTHER -> Unsupported(GnTag % 32)

\* C17, as the specification states it: dNSName, directoryName,
\* uniformResourceIdentifier and iPAddress are kept with their value, and a
\* name with any other tag is kept as Unsupported(tag & 0x1F), never turned
\* into a parse error.
C17_EveryOtherTagUnsupported ==
    (FromDerDone /\ GnReads) => (gn_result.ok /\ gn_result.name = GnRecognized)

\* C17, amended: dNSName, directoryName, uniformResourceIdentifier and
\* iPAddress are kept with their value; the five other forms of GeneralName
\* (otherName, rfc822Name, x400Address, ediPartyName, registeredID, with the
\* tag byte of their form) are kept as Unsupported(tag & 0x1F); every other
\* tag byte, and input that cannot be read, is the error BadDer.
C17_OtherFormsUnsupportedElseBadDer ==
    FromDerDone =>
        IF GnReads /\ GnTag \in {CONTEXT_SPECIFIC + 2, CONTEXT_SPECIFIC + CONSTRUCTED + 4,
                                  CONTEXT_SPECIFIC + 6, CONTEXT_SPECIFIC + 7,
                                  CONTEXT_SPECIFIC + CONSTRUCTED + 0, CONTEXT_SPECIFIC + 1,
                                  CONTEXT_SPECIFIC + CONSTRUCTED + 3,
                                  CONTEXT_SPECIFIC + CONSTRUCTED + 5, CONTEXT_SPECIFIC + 8}
        THEN /\ gn_result.ok
             /\ gn_result.name = GnRecognized
             /\ gn_result.rest = read_tag_and_get_value(gn_input).rest
        ELSE ~gn_result.ok /\ gn_result.err = "BadDer"

\* An rfc822Name was kept as Unsupported(1).
C17_Witness ==
    /\ FromDerDone
    /\ GnReads
    /\ GnTag = CONTEXT_SPECIFIC + 1
    /\ gn_result.ok
    /\ gn_result.name = Unsupported(1)

\* A tag-length-value that can be read, with a tag byte of no form of
\* GeneralName, was the error BadDer.
C17_WitnessBadDer ==
    /\ FromDerDone
    /\ GnReads
    /\ GnTag = CONTEXT_SPECIFIC + 9
    /\ ~gn_result.ok

----------------------------------------------------------------------------
\* A presented uniformResourceIdentifier

\* The list has an entry whose base is a uniformResourceIdentifier.
HasUriEntry(list) ==
    /\ IsSome(list)
    /\ \E i \in 1..Len(TlvsOf(Unwrap(list))) :
          /\ ExactlyOneGeneralName(TlvsOf(Unwrap(list))[i])
          /\ TlvsOf(TlvsOf(Unwrap(list))[i].value)[1].tag = CONTEXT_SPECIFIC + 6

----------------------------------------------------------------------------
\* The entry that decides verify_cert_dns_name

\* The tag-length-values of the certificate's subjectAltName
SanTlvs ==
    IF IsSome(cert.subject_alt_name) THEN TlvsOf(Unwrap(cert.subject_alt_name))
    ELSE << >>

\* Entry i of the subjectAltName is no general name.
SanEntryMalformed(i) == ~SanTlvs[i].ok \/ SanTlvs[i].tag \notin GeneralNameTags

\* Entry i of the subjectAltName is a dNSName that matches the reference name.
SanEntryMatchingDns(i) ==
    /\ SanTlvs[i].ok
    /\ SanTlvs[i].tag = CONTEXT_SPECIFIC + 2
    /\ dns_presented_id_matches_reference_id(SanTlvs[i].value, subject_name.value)
         = "true"

\* The entries that are malformed or a matching dNSName
Deciding == {i \in 1..Len(SanTlvs) : SanEntryMalformed(i) \/ SanEntryMatchingDns(i)}

FirstDeciding == CHOOSE i \in Deciding : \A j \in Deciding : i <= j

\* C19: the first entry of subjectAltName, in encoded order, that does not
\* parse or is a matching dNSName fixes what verify_cert_dns_name returns: the
\* parse error if it does not parse, Ok if it matches; no entry after it is
\* read.  Without such an entry the result is CertNotValidForName.
C19_FirstDecidingEntry ==
    (NameDone /\ nv_pc = "dns") =>
        IF Deciding = {} THEN nv_result = "CertNotValidForName"
        ELSE /\ nv_result = IF SanEntryMalformed(FirstDeciding) THEN "BadDer" ELSE "Ok"
             /\ Len(nv_yielded) = FirstDeciding

\* A malformed entry before a matching dNSName: the parse error
C19_Witness ==
    /\ NameDone /\ nv_pc = "dns"
    /\ nv_op = "verify_cert_dns_name"
    /\ Len(SanTlvs) = 2
    /\ SanEntryMalformed(1)
    /\ SanEntryMatchingDns(2)
    /\ nv_result = "BadDer"

\* A malformed entry after a matching dNSName: Ok, the entry never read
C19_WitnessAfter ==
    /\ NameDone /\ nv_pc = "dns"
    /\ nv_op = "verify_cert_dns_name"
    /\ Len(SanTlvs) = 2
    /\ SanEntryMatchingDns(1)
    /\ SanEntryMalformed(2)
    /\ nv_result = "Ok"
    /\ Len(nv_yielded) = 1

----------------------------------------------------------------------------
\* verify_signed_data with a malformed SPKI

\* The SPKI is exactly a SEQUENCE followed by a BIT STRING with zero unused
\* bits.
SpkiWellFormed ==
    /\ Len(TlvsOf(spki_value)) = 2
    /\ TlvsOf(spki_value)[1].ok /\ TlvsOf(spki_value)[2].ok
    /\ TlvsOf(spki_value)[1].tag = 48
    /\ TlvsOf(spki_value)[2].tag = 3
    /\ Len(TlvsOf(spki_value)[2].value) >= 1
    /\ TlvsOf(spki_value)[2].value[1] = 0

\* Some supported algorithm has the signature algorithm of the signed data.
SomeSignatureAlgMatches ==
    \E i \in 1..Len(supported_algorithms) :
        supported_algorithms[i].signature_alg_id = signed_data.algorithm

\* C20: with a malformed SPKI, verify_signed_data returns BadDer if some
\* supported algorithm has the signature algorithm of the signed data, and
\* UnsupportedSignatureAlgorithm if none has (the SPKI is then never parsed);
\* it never returns Ok and never invokes a callback.
C20_MalformedSpki ==
    ~SpkiWellFormed =>
        /\ sd_calls = << >>
        /\ sd_result # "Ok"
        /\ SigDone => sd_result = IF SomeSignatureAlgMatches THEN "BadDer"
                                  ELSE "UnsupportedSignatureAlgorithm"

\* BadDer at the second algorithm of the list, the first having another
\* signature algorithm
C20_Witness ==
    /\ ~SpkiWellFormed
    /\ sd_result = "BadDer"
    /\ Len(supported_algorithms) = 2
    /\ supported_algorithms[1].signature_alg_id # signed_data.algorithm
    /\ supported_algorithms[2].signature_alg_id = signed_data.algorithm

\* A malformed SPKI that no algorithm came to parse
C20_WitnessNeverParsed ==
    /\ ~SpkiWellFormed
    /\ spki_value # << >>
    /\ sd_result = "UnsupportedSignatureAlgorithm"
    /\ Len(supported_algorithms) = 2

====
